---- MODULE Spec2Model ----
(***************************************************************************)
(* A model of sqlakeyset: the bookmark codec (serial/serial.py,            *)
(* results.py) and keyset paging (paging.py, results.py, columns.py).      *)
(*                                                                         *)
(* Python strings are modelled as sequences of one-character strings; the  *)
(* characters that matter to the codec have names: BS is the backslash,    *)
(* NL the newline, CR the carriage return.                                 *)
(***************************************************************************)
EXTENDS Integers, Sequences, FiniteSets, TLC

VARIABLES
    \* ---- the codec (serial.py, results.py) ----
    serializers,    \* Serial.serializers: type name -> [code, ser]
    deserializers,  \* Serial.deserializers: code -> deserializer name
    reg_call,       \* the last call of register_type: its type and code
    reg_err,        \* its outcome: "ok" or the exception raised
    reg_log,        \* the registrations that succeeded, in order
    c_op,           \* which codec operation this run exercises
    c_in,           \* its input
    c_mid,          \* the serialized form (a result record)
    c_out,          \* the value read back (a result record)
    c_pc,           \* "idle", or "encode" -> "decode" -> "done"
    \* ---- the database and the query (the caller's side of get_page) ----
    table,          \* the rows the query selects
    order_by,       \* the query's ORDER BY: a list of ordering columns
    db_dialect,     \* "native": the dialect compares tuples natively; "manual"
    per_page,       \* the page size asked for
    \* ---- one call of get_page / select_page ----
    args,           \* the arguments after, before, page of the last call
    result,         \* its outcome: a Paging, or the exception raised
    \* ---- a traversal that follows paging.further ----
    t_pc,           \* "idle", "fetch" (a page is to be fetched), "done" or "failed"
    t_marker,       \* the marker of the page to fetch next
    gathered,       \* the rows of the pages so far, in traversal order
    stable,         \* the rows present at every fetch so far
    fetches,        \* the number of pages fetched
    mods,           \* the number of inserts and deletes since the start
    distinct,       \* ordering keys were pairwise distinct at every fetch
    \* ---- ORDER BY expressions as objects (columns.py) ----
    heap,           \* the expression objects: object id -> its attributes
    ocs,            \* the OC objects made so far, each with how it was made
    \* ---- one evaluation of the page filter (paging.py) ----
    w_op,           \* "none", "compare" (compare_tuples) or "where"
    w_in,           \* the inputs of the evaluation
    w_out,          \* its outcome
    \* ---- the statements a call executes (paging.py, sqla13/14/20.py) ----
    sqla_version,   \* the SQLAlchemy version path in use: "1.3", "1.4", "2.0"
    s_call,         \* the last pagination call: its function and its requests
    s_executed,     \* the statements it executed on the connection, in order
    \* ---- ordering columns resolved to output columns (columns.py) ----
    counter,        \* AppendedColumn._counter, a class attribute
    b_call,         \* the last call: its kind and its requests' ORDER BYs
    b_result,       \* what the call made: mapped columns, extra columns
    \* ---- threads that construct AppendedColumns (columns.py) ----
    th_pc,          \* each thread's position in AppendedColumn.__init__
    th_local,       \* each thread's value loaded for _counter += 1
    th_names        \* the names generated so far, in order

registryVars == <<serializers, deserializers, reg_call, reg_err, reg_log>>
codecVars == <<c_op, c_in, c_mid, c_out, c_pc>>
queryVars == <<table, order_by, db_dialect, per_page>>
callVars == <<args, result>>
traversalVars == <<t_pc, t_marker, gathered, stable, fetches, mods, distinct>>
exprVars == <<heap, ocs>>
whereVars == <<w_op, w_in, w_out>>
sessionVars == <<sqla_version, s_call, s_executed>>
resolveVars == <<counter, b_call, b_result>>
threadVars == <<th_pc, th_local, th_names>>
moreVars == <<sessionVars, resolveVars, threadVars>>

vars == <<registryVars, codecVars, queryVars, callVars, traversalVars, exprVars,
          whereVars, moreVars>>

----------------------------------------------------------------------------
(* Bounds *)

\* longest string handed to escape / serialize_value
MaxStrLen == 3
\* longest string inside a keyset handed to serialize_bookmark
MaxKeyStrLen == 2
\* integers handed to serialize_value are -MaxInt..MaxInt
MaxInt == 12
\* longest keyset handed to serialize_bookmark
MaxKeyLen == 2

----------------------------------------------------------------------------
(* Characters and strings *)

BS == "BS"
NL == "NL"
CR == "CR"

\* the characters input strings are drawn from: the escape character, the
\* letter n, the newline, the carriage return, the field delimiter, the
\* code separator and an ordinary letter
Alphabet == {BS, "n", NL, CR, "~", ":", "a"}

RECURSIVE StringsOfLen(_)
StringsOfLen(k) ==
    IF k = 0 THEN {<<>>}
    ELSE {Append(s, c) : s \in StringsOfLen(k - 1), c \in Alphabet}

StringsUpTo(k) == UNION {StringsOfLen(j) : j \in 0..k}

\* x[i..] starts with pat (1-based)
StartsWithAt(x, i, pat) ==
    /\ i + Len(pat) - 1 <= Len(x)
    /\ \A j \in 1..Len(pat) : x[i + j - 1] = pat[j]

\* str.split(sep): the parts between the non-overlapping occurrences of sep,
\* found left to right
RECURSIVE SplitFrom(_, _, _, _)
SplitFrom(x, sep, i, cur) ==
    IF i > Len(x) THEN <<cur>>
    ELSE IF StartsWithAt(x, i, sep)
         THEN <<cur>> \o SplitFrom(x, sep, i + Len(sep), <<>>)
         ELSE SplitFrom(x, sep, i + 1, Append(cur, x[i]))

StrSplit(x, sep) == SplitFrom(x, sep, 1, <<>>)

\* str.replace(old, new): every non-overlapping occurrence, left to right
RECURSIVE ReplaceFrom(_, _, _, _)
ReplaceFrom(x, old, new, i) ==
    IF i > Len(x) THEN <<>>
    ELSE IF StartsWithAt(x, i, old)
         THEN new \o ReplaceFrom(x, old, new, i + Len(old))
         ELSE <<x[i]>> \o ReplaceFrom(x, old, new, i + 1)

StrReplace(x, old, new) == ReplaceFrom(x, old, new, 1)

\* sep.join(parts)
RECURSIVE StrJoin(_, _)
StrJoin(parts, sep) ==
    IF Len(parts) = 0 THEN <<>>
    ELSE IF Len(parts) = 1 THEN parts[1]
    ELSE parts[1] \o sep \o StrJoin(Tail(parts), sep)

\* x.split(":", 1): at most one split, at the first colon
RECURSIVE FirstIndexOf(_, _, _)
FirstIndexOf(x, c, i) ==
    IF i > Len(x) THEN 0
    ELSE IF x[i] = c THEN i
    ELSE FirstIndexOf(x, c, i + 1)

\* x[::-1]
StrReverse(x) == [i \in 1..Len(x) |-> x[Len(x) + 1 - i]]

----------------------------------------------------------------------------
(* serial.py: escape / unescape *)

\* r"\n".join(x.replace(r"\n", r"\\n") for x in x.split("\n"))
escape(x) ==
    LET parts == StrSplit(x, <<NL>>)
        done  == [i \in 1..Len(parts) |->
                    StrReplace(parts[i], <<BS, "n">>, <<BS, BS, "n">>)]
    IN  StrJoin(done, <<BS, "n">>)

\* r"\n".join(x.replace(r"\n", "\n") for x in x.split(r"\\n"))
unescape(x) ==
    LET parts == StrSplit(x, <<BS, BS, "n">>)
        done  == [i \in 1..Len(parts) |->
                    StrReplace(parts[i], <<BS, "n">>, <<NL>>)]
    IN  StrJoin(done, <<BS, "n">>)

----------------------------------------------------------------------------
(* Python values and results *)

\* a Python value: its type, and its content as a string or as a number
VNone     == [t |-> "NoneType", s |-> <<>>, n |-> 0]
VBool(b)  == [t |-> "bool", s |-> <<>>, n |-> IF b THEN 1 ELSE 0]
VInt(n)   == [t |-> "int", s |-> <<>>, n |-> n]
VStr(s)   == [t |-> "str", s |-> s, n |-> 0]
\* class Y(str) of the test suite, registered with code "y"
VY(s)     == [t |-> "Y", s |-> s, n |-> 0]
\* an instance of a class that carries no data
VObj(type) == [t |-> type, s |-> <<>>, n |-> 0]
\* fractions.Fraction(n): a number of an unregistered type
VFraction(n) == [t |-> "Fraction", s |-> <<>>, n |-> n]
\* a list: a value that cannot be hashed
VList == [t |-> "list", s |-> <<>>, n |-> 0]
\* hash(x) raises TypeError for lists
Hashable(x) == x.t # "list"

\* Python's ==: a str subclass equals a str with the same characters, a
\* bool equals the int with the same value, None equals only None
PyEq(a, b) ==
    LET strs == {"str", "Y"}
        nums == {"int", "bool", "Fraction"}
    IN  \/ a.t \in strs /\ b.t \in strs /\ a.s = b.s
        \/ a.t \in nums /\ b.t \in nums /\ a.n = b.n
        \/ a.t = "NoneType" /\ b.t = "NoneType"

\* a call's outcome: a returned value, or the exception raised
Ok(v)    == [err |-> "ok", v |-> v]
Raise(e) == [err |-> e, v |-> <<>>]
\* an exception raised by a method of an object, with the object as the
\* method left it
RaiseIn(e, obj) == [err |-> e, v |-> obj]

\* Optional[Keyset]
NoPlace     == [isNone |-> TRUE, v |-> <<>>]
Place(k)    == [isNone |-> FALSE, v |-> k]
Marker(p, b) == [place |-> p, backwards |-> b]

----------------------------------------------------------------------------
(* serial.py: str() and int() of an integer *)

Digit(d) == <<"0", "1", "2", "3", "4", "5", "6", "7", "8", "9">>[d + 1]

RECURSIVE NatToStr(_)
NatToStr(n) ==
    IF n < 10 THEN <<Digit(n)>>
    ELSE Append(NatToStr(n \div 10), Digit(n % 10))

\* str(n)
IntToStr(n) == IF n < 0 THEN <<"-">> \o NatToStr(0 - n) ELSE NatToStr(n)

DigitValue(c) ==
    CASE c = "0" -> 0 [] c = "1" -> 1 [] c = "2" -> 2 [] c = "3" -> 3
      [] c = "4" -> 4 [] c = "5" -> 5 [] c = "6" -> 6 [] c = "7" -> 7
      [] c = "8" -> 8 [] c = "9" -> 9 [] OTHER -> -1

RECURSIVE DigitsToNat(_, _)
DigitsToNat(s, acc) ==
    IF Len(s) = 0 THEN acc
    ELSE DigitsToNat(Tail(s), 10 * acc + DigitValue(Head(s)))

AllDigits(s) == Len(s) > 0 /\ \A i \in 1..Len(s) : DigitValue(s[i]) >= 0

\* int(s) on an optional sign followed by decimal digits; anything else
\* raises ValueError.  (Python also accepts surrounding blanks and
\* underscores between digits; no token of the model holds them.)
deserialize_int(s) ==
    IF AllDigits(s) THEN Ok(VInt(DigitsToNat(s, 0)))
    ELSE IF Len(s) > 1 /\ Head(s) \in {"-", "+"} /\ AllDigits(Tail(s))
         THEN Ok(VInt(IF Head(s) = "-" THEN 0 - DigitsToNat(Tail(s), 0)
                                       ELSE DigitsToNat(Tail(s), 0)))
    ELSE Raise("ValueError")

----------------------------------------------------------------------------
(* serial.py: the type registry *)

\* the definitions of TYPES, in order: type, code, deserializer, serializer
\* (a missing deserializer is the type itself, a missing serializer is str)
TYPES == <<
    [type |-> "str",      code |-> <<"s">>, deser |-> "unescape",  ser |-> "escape"],
    [type |-> "int",      code |-> <<"i">>, deser |-> "int",       ser |-> "str"],
    [type |-> "float",    code |-> <<"f">>, deser |-> "float",     ser |-> "str"],
    [type |-> "bytes",    code |-> <<"b">>, deser |-> "bindecode", ser |-> "binencode"],
    [type |-> "Decimal",  code |-> <<"n">>, deser |-> "Decimal",   ser |-> "str"],
    [type |-> "UUID",     code |-> <<"u", "u", "i", "d">>, deser |-> "UUID", ser |-> "str"],
    [type |-> "datetime", code |-> <<"d", "t">>, deser |-> "dateutil.parser.parse", ser |-> "str"],
    [type |-> "date",     code |-> <<"d">>, deser |-> "parsedate", ser |-> "str"],
    [type |-> "time",     code |-> <<"t">>, deser |-> "time",      ser |-> "str"] >>

\* the values serialized without a prefix code
BUILTINS ==
    (<<"x">> :> VNone) @@ (<<"t", "r", "u", "e">> :> VBool(TRUE))
        @@ (<<"f", "a", "l", "s", "e">> :> VBool(FALSE))

\* BUILTINS_INV[x]: the keyword of the builtin equal to x, <<>> if none is
BUILTINS_INV(x) ==
    LET hits == {k \in DOMAIN BUILTINS : PyEq(BUILTINS[k], x)}
    IN  IF hits = {} THEN <<>> ELSE CHOOSE k \in hits : TRUE

\* a faulty register_type that does not look at the code
register_type_any_code(reg, type, code, deserializer, serializer) ==
    IF type \in DOMAIN reg.ser THEN RaiseIn("ConfigurationError", reg)
    ELSE Ok([ser   |-> reg.ser @@ (type :> [code |-> code, ser |-> serializer]),
             deser |-> (code :> deserializer) @@ reg.deser])

\* a faulty register_type that stores the serializer before it checks the
\* code
register_type_write_first(reg, type, code, deserializer, serializer) ==
    IF type \in DOMAIN reg.ser THEN RaiseIn("ConfigurationError", reg)
    ELSE IF code \in DOMAIN reg.deser
    THEN RaiseIn("ConfigurationError",
                 [ser   |-> reg.ser @@ (type :> [code |-> code, ser |-> serializer]),
                  deser |-> reg.deser])
    ELSE Ok([ser   |-> reg.ser @@ (type :> [code |-> code, ser |-> serializer]),
             deser |-> reg.deser @@ (code :> deserializer)])

\* register_type on the registry reg = [ser, deser]: the registry after the
\* call, with "ok" or with the ConfigurationError raised
register_type(reg, type, code, deserializer, serializer) ==
    IF type \in DOMAIN reg.ser THEN RaiseIn("ConfigurationError", reg)
    ELSE IF code \in DOMAIN reg.deser THEN RaiseIn("ConfigurationError", reg)
    ELSE Ok([ser   |-> reg.ser @@ (type :> [code |-> code, ser |-> serializer]),
             deser |-> reg.deser @@ (code :> deserializer)])

\* Serial.__init__: empty tables, then register_type for each of TYPES
RECURSIVE RegisterAll(_, _)
RegisterAll(reg, defs) ==
    IF Len(defs) = 0 THEN reg
    ELSE LET d == Head(defs)
             r == register_type(reg, d.type, d.code, d.deser, d.ser)
         IN  RegisterAll(IF r.err = "ok" THEN r.v ELSE reg, Tail(defs))

EmptyRegistry == [ser |-> <<>>, deser |-> <<>>]

SerialInit == RegisterAll(EmptyRegistry, TYPES)

\* tests/test_ser.py: s.register_type(Y, "y", reversestr, reversestr)
RegistryWithY ==
    register_type(SerialInit, "Y", <<"y">>, "reversestr", "reversestr").v

----------------------------------------------------------------------------
(* serial.py: serialize_value / unserialize_value *)

\* the registered serializer functions, by name
ApplySerializer(name, x) ==
    CASE name = "escape"     -> Ok(escape(x.s))
      [] name = "reversestr" -> Ok(StrReverse(x.s))
      [] name = "str" /\ x.t = "int" -> Ok(IntToStr(x.n))
      [] name \in {"a", "b", "c"} -> Ok(<<name>>)
      [] OTHER -> Raise("unmodelled")

\* the registered deserializer functions, by name
ApplyDeserializer(name, v) ==
    CASE name = "unescape"   -> Ok(VStr(unescape(v)))
      [] name = "reversestr" -> Ok(VStr(StrReverse(v)))
      [] name = "int"        -> deserialize_int(v)
      [] name \in {"A", "B", "C"} -> Raise("TypeError")
      [] OTHER -> Raise("unmodelled")

\* Serial.serialize_value under the registry reg
serialize_value(reg, x) ==
    IF x.t \in DOMAIN reg.ser
    THEN LET entry == reg.ser[x.t]
             r     == ApplySerializer(entry.ser, x)
         IN  IF r.err = "ok" THEN Ok(entry.code \o <<":">> \o r.v)
             ELSE IF r.err = "unmodelled" THEN r
             ELSE Raise("PageSerializationError")
    ELSE IF ~Hashable(x) THEN Raise("TypeError")
    ELSE LET k == BUILTINS_INV(x)
         IN  IF k # <<>> THEN Ok(k) ELSE Raise("UnregisteredType")

\* a faulty unserialize_value that lets the deserializer's exception through
unserialize_value_unwrapped(reg, x) ==
    LET colon == FirstIndexOf(x, ":", 1)
        c     == SubSeq(x, 1, colon - 1)
        v     == SubSeq(x, colon + 1, Len(x))
    IN  IF colon = 0
        THEN IF x \in DOMAIN BUILTINS THEN Ok(BUILTINS[x])
             ELSE Raise("BadBookmark")
        ELSE IF c \notin DOMAIN reg.deser
        THEN IF c \in DOMAIN BUILTINS THEN Ok(BUILTINS[c])
             ELSE Raise("BadBookmark")
        ELSE ApplyDeserializer(reg.deser[c], v)

\* Serial.unserialize_value under the registry reg
unserialize_value(reg, x) ==
    LET colon == FirstIndexOf(x, ":", 1)
        c     == SubSeq(x, 1, colon - 1)
        v     == SubSeq(x, colon + 1, Len(x))
    IN  IF colon = 0
        THEN IF x \in DOMAIN BUILTINS THEN Ok(BUILTINS[x])
             ELSE Raise("BadBookmark")
        ELSE IF c \notin DOMAIN reg.deser
        THEN IF c \in DOMAIN BUILTINS THEN Ok(BUILTINS[c])
             ELSE Raise("BadBookmark")
        ELSE LET r == ApplyDeserializer(reg.deser[c], v)
             IN  IF r.err \in {"ok", "unmodelled"} THEN r
                 ELSE Raise("BadBookmark")

----------------------------------------------------------------------------
(* serial.py: join / split, the csv writer and reader under                *)
(* SERIALIZER_SETTINGS: delimiter "~", escapechar backslash, QUOTE_NONE,   *)
(* lineterminator "", and the default quotechar                            *)

Delimiter  == "~"
EscapeChar == BS
QuoteChar  == "QUOTE"
EOL        == "EOL"

\* the writer puts the escape character before a delimiter, an escape
\* character or a quote character
RECURSIVE WriteField(_)
WriteField(f) ==
    IF Len(f) = 0 THEN <<>>
    ELSE (IF Head(f) \in {Delimiter, EscapeChar, QuoteChar}
          THEN <<EscapeChar, Head(f)>> ELSE <<Head(f)>>) \o WriteField(Tail(f))

\* Serial.join: csv.writer(...).writerow(string_list); one empty field alone
\* cannot be written without quotes
join(string_list) ==
    IF Len(string_list) = 1 /\ string_list[1] = <<>> THEN Raise("csv.Error")
    ELSE Ok(StrJoin([i \in 1..Len(string_list) |-> WriteField(string_list[i])],
                    <<Delimiter>>))

\* the reader's state: st, the fields saved so far, the field being read
ReaderStart == [st |-> "START_RECORD", fields |-> <<>>, cur |-> <<>>]

SaveField(r, st) == [st |-> st, fields |-> Append(r.fields, r.cur), cur |-> <<>>]
AddChar(r, c, st) == [r EXCEPT !.st = st, !.cur = Append(r.cur, c)]

InField(r, c) ==
    IF c \in {NL, CR, EOL}
    THEN SaveField(r, IF c = EOL THEN "START_RECORD" ELSE "EAT_CRNL")
    ELSE IF c = EscapeChar THEN [r EXCEPT !.st = "ESCAPED_CHAR"]
    ELSE IF c = Delimiter THEN SaveField(r, "START_FIELD")
    ELSE AddChar(r, c, "IN_FIELD")

StartField(r, c) ==
    IF c \in {NL, CR, EOL}
    THEN SaveField(r, IF c = EOL THEN "START_RECORD" ELSE "EAT_CRNL")
    ELSE IF c = EscapeChar THEN [r EXCEPT !.st = "ESCAPED_CHAR"]
    ELSE IF c = Delimiter THEN SaveField(r, "START_FIELD")
    ELSE AddChar(r, c, "IN_FIELD")

\* one character through the reader's state machine (quoting never starts
\* under QUOTE_NONE)
ProcessChar(r, c) ==
    CASE r.st = "START_RECORD" ->
            IF c = EOL THEN r
            ELSE IF c \in {NL, CR} THEN [r EXCEPT !.st = "EAT_CRNL"]
            ELSE StartField(r, c)
      [] r.st = "START_FIELD" -> StartField(r, c)
      [] r.st = "ESCAPED_CHAR" ->
            IF c \in {NL, CR} THEN AddChar(r, c, "AFTER_ESCAPED_CRNL")
            ELSE AddChar(r, IF c = EOL THEN NL ELSE c, "IN_FIELD")
      [] r.st = "AFTER_ESCAPED_CRNL" ->
            IF c = EOL THEN r ELSE InField(r, c)
      [] r.st = "IN_FIELD" -> InField(r, c)
      [] r.st = "EAT_CRNL" ->
            IF c \in {NL, CR} THEN r
            ELSE IF c = EOL THEN [r EXCEPT !.st = "START_RECORD"]
            ELSE [r EXCEPT !.st = "ERROR"]
      [] OTHER -> r

RECURSIVE ProcessChars(_, _)
ProcessChars(r, line) ==
    IF Len(line) = 0 THEN r
    ELSE ProcessChars(ProcessChar(r, Head(line)), Tail(line))

\* the lines StringIO yields: each ends after a newline
RECURSIVE LinesFrom(_, _, _)
LinesFrom(x, i, cur) ==
    IF i > Len(x) THEN (IF cur = <<>> THEN <<>> ELSE <<cur>>)
    ELSE IF x[i] = NL THEN <<Append(cur, NL)>> \o LinesFrom(x, i + 1, <<>>)
    ELSE LinesFrom(x, i + 1, Append(cur, x[i]))

\* next(reader): lines are consumed until a record is complete
RECURSIVE ReaderNext(_, _)
ReaderNext(r, lines) ==
    IF Len(lines) = 0
    THEN IF r.cur # <<>> THEN Ok(Append(r.fields, r.cur))
         ELSE Raise("StopIteration")
    ELSE LET r2 == ProcessChars(r, Append(Head(lines), EOL))
         IN  IF r2.st = "ERROR" THEN Raise("csv.Error")
             ELSE IF r2.st = "START_RECORD" THEN Ok(r2.fields)
             ELSE ReaderNext(r2, Tail(lines))

\* Serial.split
split(joined) == ReaderNext(ReaderStart, LinesFrom(joined, 1, <<>>))

----------------------------------------------------------------------------
(* serial.py: serialize_values / unserialize_values *)

\* the outcomes of f over a sequence: the first exception, or all values
RECURSIVE FirstError(_)
FirstError(rs) ==
    IF Len(rs) = 0 THEN "ok"
    ELSE IF Head(rs).err # "ok" THEN Head(rs).err
    ELSE FirstError(Tail(rs))

AllOk(rs) ==
    IF FirstError(rs) = "ok" THEN Ok([i \in 1..Len(rs) |-> rs[i].v])
    ELSE Raise(FirstError(rs))

\* Serial.serialize_values of an Optional[Keyset]
serialize_values(reg, values) ==
    IF values.isNone THEN Ok(<<>>)
    ELSE LET toks == AllOk([i \in 1..Len(values.v) |->
                              serialize_value(reg, values.v[i])])
         IN  IF toks.err # "ok" THEN toks ELSE join(toks.v)

\* Serial.unserialize_values: an Optional[Keyset]
unserialize_values(reg, s) ==
    IF s = <<>> THEN Ok(NoPlace)
    ELSE LET cells == split(s)
         IN  IF cells.err # "ok" THEN cells
             ELSE LET vals == AllOk([i \in 1..Len(cells.v) |->
                                       unserialize_value(reg, cells.v[i])])
                  IN  IF vals.err # "ok" THEN vals ELSE Ok(Place(vals.v))

----------------------------------------------------------------------------
(* results.py: serialize_bookmark / unserialize_bookmark *)

serialize_bookmark(reg, marker) ==
    LET ss == serialize_values(reg, marker.place)
        direction == IF marker.backwards THEN "<" ELSE ">"
    IN  IF ss.err # "ok" THEN ss ELSE Ok(<<direction>> \o ss.v)

unserialize_bookmark(reg, bookmark) ==
    IF bookmark = <<>> THEN Ok(Marker(NoPlace, FALSE))
    ELSE IF bookmark[1] \notin {">", "<"} THEN Raise("BadBookmark")
    ELSE LET cells == unserialize_values(reg, Tail(bookmark))
         IN  IF cells.err # "ok" THEN cells
             ELSE Ok(Marker(cells.v, bookmark[1] = "<"))

\* Python's == on keysets and on markers
KeysetEq(p, q) ==
    /\ p.isNone = q.isNone
    /\ Len(p.v) = Len(q.v)
    /\ \A i \in 1..Len(p.v) : PyEq(p.v[i], q.v[i])

MarkerEq(m1, m2) ==
    KeysetEq(m1.place, m2.place) /\ m1.backwards = m2.backwards

----------------------------------------------------------------------------
(* Keyset paging: the query and its rows                                   *)
(*                                                                         *)
(* A row is a pair of integers       and the table is a set of rows.  *)
(* The query selects every row and orders by a list of ordering columns,   *)
(* each a field of the row with a direction.  An ORDER BY that does not    *)
(* name every field leaves rows with equal ordering keys.                  *)

\* columns.py OC: an ordering column, here the field it reads and its
\* direction
OC(col, asc) == [col |-> col, asc |-> asc]

\* OC.reversed
reversed(oc) == [oc EXCEPT !.asc = ~oc.asc]

\* tuple(col.get_from_row(row) for col in mapped_ocols): the row's keyset
KeyOf(row, ocols) == [i \in 1..Len(ocols) |-> row[ocols[i].col]]

\* a faulty pair_for_comparison that forgets the swap of descending columns
pair_for_comparison_unswapped(oc, value, row) == <<row[oc.col], value>>

\* a faulty pair_for_comparison that swaps every column
pair_for_comparison_swapped(oc, value, row) == <<value, row[oc.col]>>

\* OC.pair_for_comparison, for the row the condition is evaluated on
pair_for_comparison(oc, value, row) ==
    IF oc.asc THEN <<row[oc.col], value>> ELSE <<value, row[oc.col]>>

\* SQL's row-value comparison (a1, ..., an) < (b1, ..., bn)
RECURSIVE TupleLess(_, _)
TupleLess(a, b) ==
    IF Len(a) = 0 \/ Len(b) = 0 THEN FALSE
    ELSE IF Head(a) # Head(b) THEN Head(a) < Head(b)
    ELSE TupleLess(Tail(a), Tail(b))

\* a faulty compare_tuples that builds lesser <= greater
compare_tuples_or_equal(lesser, greater, dialect) ==
    IF Len(lesser) # Len(greater) THEN Raise("ValueError")
    ELSE Ok(lesser = greater \/ TupleLess(lesser, greater))

\* a faulty compare_tuples whose expansion drops the equalities of the
\* columns before eq_depth
compare_tuples_any_column(lesser, greater, dialect) ==
    IF Len(lesser) # Len(greater) THEN Raise("ValueError")
    ELSE IF Len(lesser) = 1 THEN Ok(lesser[1] < greater[1])
    ELSE IF dialect = "native" THEN Ok(TupleLess(lesser, greater))
    ELSE Ok(\E eq_depth \in 1..Len(lesser) : lesser[eq_depth] < greater[eq_depth])

\* paging.py compare_tuples: lesser < greater, natively or expanded to
\* OR / AND
compare_tuples(lesser, greater, dialect) ==
    IF Len(lesser) # Len(greater) THEN Raise("ValueError")
    ELSE IF Len(lesser) = 1 THEN Ok(lesser[1] < greater[1])
    ELSE IF dialect = "native" THEN Ok(TupleLess(lesser, greater))
    ELSE Ok(\E eq_depth \in 1..Len(lesser) :
                /\ \A index \in 1..(eq_depth - 1) : lesser[index] = greater[index]
                /\ lesser[eq_depth] < greater[eq_depth])

\* paging.py where_condition_for_page: the condition as data, or InvalidPage
where_condition_for_page(ordering_columns, place, dialect) ==
    IF Len(ordering_columns) # Len(place) THEN Raise("InvalidPage")
    ELSE Ok([ocols |-> ordering_columns, place |-> place, dialect |-> dialect])

\* the condition of where_condition_for_page evaluated on a row
ConditionHolds(cond, row) ==
    LET swapped == [i \in 1..Len(cond.ocols) |->
                      pair_for_comparison(cond.ocols[i], cond.place[i], row)]
        row_side  == [i \in 1..Len(swapped) |-> swapped[i][1]]
        place_row == [i \in 1..Len(swapped) |-> swapped[i][2]]
    IN  compare_tuples(place_row, row_side, cond.dialect).v

\* ORDER BY: r1 may come before r2 (equal ordering keys may come either way)
RECURSIVE OrderedBefore(_, _, _)
OrderedBefore(r1, r2, ocols) ==
    IF Len(ocols) = 0 THEN TRUE
    ELSE LET oc == Head(ocols)
         IN  IF r1[oc.col] # r2[oc.col]
             THEN (IF oc.asc THEN r1[oc.col] < r2[oc.col]
                             ELSE r1[oc.col] > r2[oc.col])
             ELSE OrderedBefore(r1, r2, Tail(ocols))

\* the orders in which the database may return the rows of S: any row that
\* may come before all the others first, then the rest likewise
RECURSIVE Orderings(_, _)
Orderings(S, ocols) ==
    IF S = {} THEN {<<>>}
    ELSE LET firsts == {r \in S : \A r2 \in S : OrderedBefore(r, r2, ocols)}
         IN  UNION {{<<r>> \o p : p \in Orderings(S \ {r}, ocols)} : r \in firsts}

\* the first n entries of a list: list[:n] for n >= 0
Take(list, n) == SubSeq(list, 1, IF n < Len(list) THEN n ELSE Len(list))
\* list[n:] for n >= 0
Drop(list, n) == SubSeq(list, n + 1, Len(list))

\* a faulty list.reverse that leaves the list as it is
SeqReverse_identity(list) == list

\* list.reverse()
SeqReverse(list) == [i \in 1..Len(list) |-> list[Len(list) + 1 - i]]

\* the rows the paged query may return: WHERE the condition (when there is
\* one), ORDER BY ocols, LIMIT limit
QueryResults(tbl, ocols, hasCond, cond, limit) ==
    LET selected == IF hasCond THEN {r \in tbl : ConditionHolds(cond, r)} ELSE tbl
    IN  {Take(p, limit) : p \in Orderings(selected, ocols)}

----------------------------------------------------------------------------
(* results.py: class Paging *)

\* Python truth of an Optional[Keyset]: None and the empty tuple are false
Truthy(p) == ~p.isNone /\ Len(p.v) > 0

\* Python's  a or b
PyOr(a, b) == IF Truthy(a) THEN a ELSE b

\* a faulty Paging.__init__ that does not trim the places to the page
Paging_untrimmed_places(rows0, per_page0, backwards0, current_place, places) ==
    LET excess  == Drop(rows0, per_page0)
        rows    == Take(rows0, per_page0)
        place_0 == current_place
        place_1 == IF Len(rows) > 0 THEN Place(places[1]) ELSE NoPlace
        place_n == IF Len(rows) > 0 THEN Place(places[Len(rows)]) ELSE NoPlace
        place_nplus1 ==
            IF Len(excess) > 0 THEN Place(places[Len(rows) + 1]) ELSE NoPlace
        four    == <<place_0, place_1, place_n, place_nplus1>>
        four_   == IF backwards0 THEN SeqReverse(four) ELSE four
        places_ == places
    IN  [original_rows |-> rows0,
         per_page  |-> per_page0,
         backwards |-> backwards0,
         rows      |-> IF backwards0 THEN SeqReverse(rows) ELSE rows,
         places    |-> IF backwards0 THEN SeqReverse(places_) ELSE places_,
         before    |-> four_[1],
         first     |-> four_[2],
         last      |-> four_[3],
         beyond    |-> four_[4]]

\* Paging.__init__
Paging(rows0, per_page0, backwards0, current_place, places) ==
    LET excess  == Drop(rows0, per_page0)
        rows    == Take(rows0, per_page0)
        place_0 == current_place
        place_1 == IF Len(rows) > 0 THEN Place(places[1]) ELSE NoPlace
        place_n == IF Len(rows) > 0 THEN Place(places[Len(rows)]) ELSE NoPlace
        place_nplus1 ==
            IF Len(excess) > 0 THEN Place(places[Len(rows) + 1]) ELSE NoPlace
        four    == <<place_0, place_1, place_n, place_nplus1>>
        four_   == IF backwards0 THEN SeqReverse(four) ELSE four
        places_ == Take(places, per_page0)
    IN  [original_rows |-> rows0,
         per_page  |-> per_page0,
         backwards |-> backwards0,
         rows      |-> IF backwards0 THEN SeqReverse(rows) ELSE rows,
         places    |-> IF backwards0 THEN SeqReverse(places_) ELSE places_,
         before    |-> four_[1],
         first     |-> four_[2],
         last      |-> four_[3],
         beyond    |-> four_[4]]

\* a faulty Paging.next that takes the first place of the page
next_from_first(p) == Marker(PyOr(p.first, p.before), FALSE)
\* a faulty Paging.has_further that ignores the paging direction
has_further_forwards(p) == Truthy(p.beyond)

\* a faulty Paging.current_backwards that starts from the last row
current_backwards_from_last(p) == Marker(p.last, TRUE)

\* a faulty Paging.previous that starts from the last row of the page
previous_from_last(p) == Marker(PyOr(p.last, p.beyond), TRUE)

\* a faulty Paging.further that stays on the page
further_stays(p) ==
    IF p.backwards THEN Marker(p.beyond, TRUE) ELSE Marker(p.before, FALSE)

\* a faulty Paging.next that prefers the place the page was fetched from
next_from_before(p) == Marker(PyOr(p.before, p.last), FALSE)

has_next(p)          == Truthy(p.beyond)
has_previous(p)      == Truthy(p.before)
next(p)              == Marker(PyOr(p.last, p.before), FALSE)
previous(p)          == Marker(PyOr(p.first, p.beyond), TRUE)
current_forwards(p)  == Marker(p.before, FALSE)
current_backwards(p) == Marker(p.beyond, TRUE)
current(p)           == IF p.backwards THEN current_backwards(p) ELSE current_forwards(p)
current_opposite(p)  == IF p.backwards THEN current_forwards(p) ELSE current_backwards(p)
further(p)           == IF p.backwards THEN previous(p) ELSE next(p)
has_further(p)       == IF p.backwards THEN has_previous(p) ELSE has_next(p)
is_full(p)           == Len(p.rows) = p.per_page
get_marker_at(p, i)  == Marker(Place(p.places[i]), p.backwards)
\* Paging.items: one (marker, row) pair for each row of the page
items(p) == [i \in 1..Len(p.rows) |-> <<get_marker_at(p, i), p.rows[i]>>]

----------------------------------------------------------------------------
(* paging.py: process_args and get_page *)

\* the after / before arguments: None, False or a keyset
ArgNone      == [kind |-> "None", v |-> <<>>]
ArgFalse     == [kind |-> "False", v |-> <<>>]
ArgKeyset(k) == [kind |-> "tuple", v |-> k]

\* the page argument: None, a (keyset, backwards) pair, a bookmark string,
\* or a tuple that is no pair
PageNone      == [kind |-> "None", m |-> Marker(NoPlace, FALSE), s |-> <<>>]
PageMarker(m) == [kind |-> "marker", m |-> m, s |-> <<>>]
PageString(s) == [kind |-> "str", m |-> Marker(NoPlace, FALSE), s |-> s]
PageTriple    == [kind |-> "triple", m |-> Marker(NoPlace, FALSE), s |-> <<>>]

\* a decoded keyset of ints as the integers the query compares
PlainInts(p) == IF p.isNone THEN p ELSE Place([i \in 1..Len(p.v) |-> p.v[i].n])

\* a faulty process_args without the check of page against after / before
process_args_unchecked(reg, after0, before0, page0) ==
    LET decoded == IF page0.kind = "str" THEN unserialize_bookmark(reg, page0.s)
                   ELSE Ok(page0.m)
        after   == IF after0.kind = "False" THEN ArgNone ELSE after0
        before  == IF before0.kind = "False" THEN ArgNone ELSE before0
    IN  IF decoded.err # "ok" THEN decoded
        ELSE IF before.kind # "None" /\ after.kind # "None"
        THEN Raise("ValueError")
        ELSE IF page0.kind = "triple" THEN Raise("InvalidPage")
        ELSE IF page0.kind = "str"
        THEN Ok(Marker(PlainInts(decoded.v.place), decoded.v.backwards))
        ELSE IF page0.kind = "marker" THEN Ok(page0.m)
        ELSE IF after.kind = "tuple" /\ Len(after.v) > 0
        THEN Ok(Marker(Place(after.v), FALSE))
        ELSE IF before.kind = "tuple" /\ Len(before.v) > 0
        THEN Ok(Marker(Place(before.v), TRUE))
        ELSE Ok(Marker(NoPlace, FALSE))

\* paging.py process_args: the Marker, or the exception
process_args(reg, after0, before0, page0) ==
    LET decoded == IF page0.kind = "str" THEN unserialize_bookmark(reg, page0.s)
                   ELSE Ok(page0.m)
        after   == IF after0.kind = "False" THEN ArgNone ELSE after0
        before  == IF before0.kind = "False" THEN ArgNone ELSE before0
        pageIsNone == page0.kind = "None"
    IN  IF decoded.err # "ok" THEN decoded
        ELSE IF before.kind # "None" /\ after.kind # "None"
        THEN Raise("ValueError")
        ELSE IF (before.kind # "None" \/ after.kind # "None") /\ ~pageIsNone
        THEN Raise("ValueError")
        ELSE IF page0.kind = "triple" THEN Raise("InvalidPage")
        ELSE IF page0.kind = "str"
        THEN Ok(Marker(PlainInts(decoded.v.place), decoded.v.backwards))
        ELSE IF page0.kind = "marker" THEN Ok(page0.m)
        ELSE IF after.kind = "tuple" /\ Len(after.v) > 0
        THEN Ok(Marker(Place(after.v), FALSE))
        ELSE IF before.kind = "tuple" /\ Len(before.v) > 0
        THEN Ok(Marker(Place(before.v), TRUE))
        ELSE Ok(Marker(NoPlace, FALSE))

\* a faulty prepare_paging that limits the query to per_page rows
prepare_paging_no_excess(ob, per_page0, place, backwards0, dialect) ==
    LET order_cols == IF backwards0
                      THEN [i \in 1..Len(ob) |-> reversed(ob[i])]
                      ELSE ob
        cond == IF Truthy(place)
                THEN where_condition_for_page(order_cols, place.v, dialect)
                ELSE Ok(<<>>)
    IN  IF cond.err # "ok" THEN cond
        ELSE Ok([order_cols |-> order_cols,
                 hasCond    |-> Truthy(place),
                 cond       |-> cond.v,
                 limit      |-> per_page0])

\* prepare_paging and _apply_where_and_limit: the ordering columns and the
\* condition of the paged query, or the exception
prepare_paging(ob, per_page0, place, backwards0, dialect) ==
    LET order_cols == IF backwards0
                      THEN [i \in 1..Len(ob) |-> reversed(ob[i])]
                      ELSE ob
        cond == IF Truthy(place)
                THEN where_condition_for_page(order_cols, place.v, dialect)
                ELSE Ok(<<>>)
    IN  IF cond.err # "ok" THEN cond
        ELSE Ok([order_cols |-> order_cols,
                 hasCond    |-> Truthy(place),
                 cond       |-> cond.v,
                 limit      |-> per_page0 + 1])

\* orm_get_page / core_get_page: the pages the call may return (one for each
\* order the database may return rows of equal keys in), or the exception
GetPageAt(tbl, ob, dialect, per_page0, place, backwards0) ==
    LET pq == prepare_paging(ob, per_page0, place, backwards0, dialect)
    IN  IF pq.err # "ok" THEN {pq}
        ELSE {Ok(Paging(rows, per_page0, backwards0, place,
                        [i \in 1..Len(rows) |-> KeyOf(rows[i], pq.v.order_cols)])) :
                rows \in QueryResults(tbl, pq.v.order_cols, pq.v.hasCond,
                                      pq.v.cond, pq.v.limit)}

\* get_page / select_page
get_page(reg, tbl, ob, dialect, per_page0, after, before, page) ==
    LET m == process_args(reg, after, before, page)
    IN  IF m.err # "ok" THEN {m}
        ELSE GetPageAt(tbl, ob, dialect, per_page0, m.v.place, m.v.backwards)

----------------------------------------------------------------------------
(* Bounds of the paging model *)

\* field values are 1..MaxVal
MaxVal == 2
\* the table holds at most MaxRows rows
MaxRows == 3
\* at most MaxMods inserts and deletes happen during a traversal
MaxMods == 2

Vals == 1..MaxVal
\* a row has two fields: the first takes any value, the second one of two
Rows == Vals \X {1, 2}
Tables == {t \in SUBSET Rows : Cardinality(t) <= MaxRows}

\* ORDER BY the first field, or the first and then the second, each
\* ascending or descending
OrderBys ==
    {<<OC(1, a)>> : a \in BOOLEAN}
        \cup {<<OC(1, a), OC(2, b)>> : a \in BOOLEAN, b \in BOOLEAN}

PerPages == 1..(MaxRows + 1)

\* no two rows of tbl have the same ordering key
DistinctKeys(tbl, ocols) ==
    \A r1 \in tbl : \A r2 \in tbl : KeyOf(r1, ocols) = KeyOf(r2, ocols) => r1 = r2

NoResult == [err |-> "none", v |-> <<>>]
NoArgs   == [after |-> ArgNone, before |-> ArgNone, page |-> PageNone]

Registry == [ser |-> serializers, deser |-> deserializers]

\* the state every specification starts the registry in: Serial.__init__,
\* then the test suite's custom type
\* the registrations of Serial.__init__ and of the test suite, in order
InitialLog ==
    [i \in 1..Len(TYPES) |-> [type |-> TYPES[i].type, code |-> TYPES[i].code]]
        \o <<[type |-> "Y", code |-> <<"y">>]>>

NoCall == [type |-> "none", code |-> <<>>]

RegistryInit ==
    /\ serializers = RegistryWithY.ser
    /\ deserializers = RegistryWithY.deser
    /\ reg_call = NoCall /\ reg_err = "none" /\ reg_log = InitialLog

CodecIdle ==
    /\ c_op = "none" /\ c_in = <<>> /\ c_mid = NoResult /\ c_out = NoResult
    /\ c_pc = "idle"

QueryInit ==
    /\ table \in Tables
    /\ order_by \in OrderBys
    /\ db_dialect \in {"native", "manual"}
    /\ per_page \in PerPages

QueryIdle ==
    /\ table = {} /\ order_by = <<OC(1, TRUE)>> /\ db_dialect = "manual" /\ per_page = 1

CallIdle == args = NoArgs /\ result = NoResult

TraversalIdle ==
    /\ t_pc = "idle" /\ t_marker = Marker(NoPlace, FALSE) /\ gathered = <<>>
    /\ stable = {} /\ fetches = 0 /\ mods = 0 /\ distinct = TRUE

ExprIdle == heap = <<>> /\ ocs = <<>>

WhereIdle == w_op = "none" /\ w_in = <<>> /\ w_out = NoResult

SessionIdle == sqla_version = "2.0" /\ s_call = <<>> /\ s_executed = <<>>

\* no call is resolving ordering columns
NoResolve == [api |-> "none", requests |-> <<>>, counter |-> 0]

ResolveIdle == counter = 0 /\ b_call = NoResolve /\ b_result = <<>>

ThreadIdle == th_pc = <<>> /\ th_local = <<>> /\ th_names = <<>>

MoreIdle == SessionIdle /\ ResolveIdle /\ ThreadIdle

----------------------------------------------------------------------------
(* Spec: a traversal that follows paging.further from (None, backwards)    *)
(* until an empty page comes back, while rows are inserted and deleted     *)
(* between the fetches (tests/test_paging.py check_paging_orm)             *)

Init ==
    /\ ExprIdle /\ WhereIdle /\ MoreIdle /\ RegistryInit /\ CodecIdle /\ QueryInit /\ CallIdle
    /\ t_pc = "fetch"
    /\ t_marker \in {Marker(NoPlace, b) : b \in BOOLEAN}
    /\ gathered = <<>>
    /\ stable = table
    /\ fetches = 0
    /\ mods = 0
    /\ distinct = TRUE

\* page = get_page(q, per_page=per_page, page=marker); gathered grows by the
\* page; marker = paging.further; an empty page ends the traversal, and so
\* does an exception of get_page
FetchFurther ==
    /\ t_pc = "fetch"
    /\ \E r \in get_page(Registry, table, order_by, db_dialect, per_page,
                         ArgNone, ArgNone, PageMarker(t_marker)) :
        /\ result' = r
        /\ args' = [after |-> ArgNone, before |-> ArgNone,
                    page |-> PageMarker(t_marker)]
        /\ gathered' = IF r.err # "ok" THEN gathered
                       ELSE IF t_marker.backwards THEN r.v.rows \o gathered
                       ELSE gathered \o r.v.rows
        /\ t_marker' = IF r.err # "ok" THEN t_marker ELSE further(r.v)
        /\ t_pc' = IF r.err # "ok" THEN "failed"
                   ELSE IF Len(r.v.rows) = 0 THEN "done" ELSE "fetch"
    /\ stable' = stable \cap table
    /\ distinct' = (distinct /\ DistinctKeys(table, order_by))
    /\ fetches' = fetches + 1
    /\ UNCHANGED <<moreVars, exprVars, whereVars, registryVars, codecVars, queryVars, mods>>

\* another session inserts a row between two fetches
InsertRow ==
    /\ t_pc = "fetch" /\ fetches > 0 /\ mods < MaxMods
    /\ Cardinality(table) < MaxRows
    /\ \E r \in Rows \ table : table' = table \cup {r}
    /\ mods' = mods + 1
    /\ UNCHANGED <<moreVars, exprVars, whereVars, registryVars, codecVars, order_by, db_dialect, per_page, callVars,
                   t_pc, t_marker, gathered, stable, fetches, distinct>>

\* another session deletes a row between two fetches
DeleteRow ==
    /\ t_pc = "fetch" /\ fetches > 0 /\ mods < MaxMods
    /\ \E r \in table : table' = table \ {r}
    /\ mods' = mods + 1
    /\ UNCHANGED <<moreVars, exprVars, whereVars, registryVars, codecVars, order_by, db_dialect, per_page, callVars,
                   t_pc, t_marker, gathered, stable, fetches, distinct>>

Next == FetchFurther \/ InsertRow \/ DeleteRow

Spec == Init /\ [][Next]_vars

----------------------------------------------------------------------------
(* Claims about the traversal *)

\* how often row r occurs in the list
Count(r, list) == Cardinality({i \in 1..Len(list) : list[i] = r})

\* C1 (as amended): over an unchanged result set whose ordering keys are
\* pairwise distinct (and non-null), the pages of a finished traversal,
\* concatenated in traversal order, are exactly the unpaged ordered result
\* set, for every ORDER BY, page size and direction.
C1_ExhaustivePageUnion ==
    (t_pc = "done" /\ mods = 0 /\ DistinctKeys(table, order_by))
        => Orderings(table, order_by) = {gathered}

\* C1 as stated, for any result set: the pages of a finished traversal over
\* an unchanged result set list every row once, in an order the ORDER BY
\* allows.
C1_AnyResultSet ==
    (t_pc = "done" /\ mods = 0) => gathered \in Orderings(table, order_by)

\* C1's case: a backwards traversal over a full table with distinct keys
\* and mixed directions, in pages of two, has finished
C1_Witness ==
    /\ t_pc = "done" /\ mods = 0
    /\ Cardinality(table) = MaxRows /\ DistinctKeys(table, order_by)
    /\ order_by = <<OC(1, TRUE), OC(2, FALSE)>>
    /\ t_marker.backwards /\ per_page = 2 /\ fetches = 3
    /\ Len(gathered) = MaxRows

\* C2: while ordering keys stay pairwise distinct, a row present at every
\* fetch is never returned twice, and once the traversal has finished it
\* has been returned exactly once.
C2_StableRowsOnce ==
    distinct =>
        /\ \A r \in stable : Count(r, gathered) <= 1
        /\ t_pc = "done" => \A r \in stable : Count(r, gathered) = 1

\* C2's case: a finished traversal during which rows were inserted and
\* deleted, that returned a row which was not there throughout
C2_Witness ==
    /\ t_pc = "done" /\ distinct /\ mods = MaxMods /\ fetches >= 3
    /\ stable # {}
    /\ \E i \in 1..Len(gathered) : gathered[i] \notin stable

----------------------------------------------------------------------------
(* CallSpec: one call of get_page / select_page with any arguments         *)

\* the keysets a caller may pass: every length from the empty tuple to one
\* more than the ORDER BY has columns
RECURSIVE KeysetsOfLen(_)
KeysetsOfLen(k) ==
    IF k = 0 THEN {<<>>}
    ELSE {Append(ks, v) : ks \in KeysetsOfLen(k - 1), v \in Vals}

\* keysets of every length a query of the model takes, one longer, and the
\* empty one
ArgKeysetLens == {0} \cup {Len(ob) + d : ob \in OrderBys, d \in {0, 1}}
ArgKeysets == UNION {KeysetsOfLen(k) : k \in ArgKeysetLens}

ArgMarkers ==
    {Marker(p, b) : p \in {NoPlace} \cup {Place(k) : k \in ArgKeysets},
                    b \in BOOLEAN}

\* an integer keyset as the Python values the codec serializes
AsValues(p) == IF p.isNone THEN p ELSE Place([i \in 1..Len(p.v) |-> VInt(p.v[i])])

\* the bookmark strings a caller may pass: the bookmark of every marker,
\* the empty string, one without a direction character, and one whose
\* value has a carriage return in it
ArgBookmarks ==
    {serialize_bookmark(RegistryWithY, Marker(AsValues(m.place), m.backwards)).v :
        m \in ArgMarkers}
        \cup {<<>>, <<"z">>, <<">", "i", ":", "1", CR, "1">>}

\* after= and before= : None, False or a keyset
KeysetArgs == {ArgNone, ArgFalse} \cup {ArgKeyset(k) : k \in ArgKeysets}
\* page= : None, a marker, a bookmark string, or a tuple of three
PageArgs ==
    {PageNone, PageTriple} \cup {PageMarker(m) : m \in ArgMarkers}
        \cup {PageString(b) : b \in ArgBookmarks}

\* the argument is given: it is neither None nor (for after / before) False
Given(a) == a.kind \notin {"None", "False"}

NumGiven(a) ==
    (IF Given(a.after) THEN 1 ELSE 0) + (IF Given(a.before) THEN 1 ELSE 0)
        + (IF Given(a.page) THEN 1 ELSE 0)

\* the arguments of conflicting calls are drawn from these
ConflictKeysetArgs == {ArgNone, ArgFalse, ArgKeyset(<<>>), ArgKeyset(<<1, 1>>)}
ConflictPageArgs ==
    {PageNone, PageTriple, PageMarker(Marker(NoPlace, FALSE)),
     PageMarker(Marker(Place(<<1, 1>>), TRUE)),
     PageString(<<>>), PageString(<<">">>), PageString(<<"z">>),
     PageString(<<">", "i", ":", "1", CR, "1">>)}

\* the calls of the model: every call with at most one argument given, and
\* the conflicting calls over the smaller sets
CallArgs ==
    [after : KeysetArgs, before : {ArgNone}, page : {PageNone}]
        \cup [after : {ArgNone}, before : KeysetArgs, page : {PageNone}]
        \cup [after : {ArgNone}, before : {ArgNone}, page : PageArgs]
        \cup [after : ConflictKeysetArgs, before : ConflictKeysetArgs,
              page : ConflictPageArgs]

CallInit ==
    /\ ExprIdle /\ WhereIdle /\ MoreIdle /\ RegistryInit /\ CodecIdle /\ QueryInit /\ CallIdle /\ TraversalIdle

\* page = get_page(q, per_page, after=..., before=..., page=...)
CallGetPage ==
    /\ result = NoResult
    /\ \E a \in CallArgs :
        /\ args' = a
        /\ result' \in get_page(Registry, table, order_by, db_dialect, per_page,
                                a.after, a.before, a.page)
    /\ UNCHANGED <<moreVars, exprVars, whereVars, registryVars, codecVars, queryVars, traversalVars>>

CallNext == CallGetPage

CallSpec == CallInit /\ [][CallNext]_vars

----------------------------------------------------------------------------
(* Claims about one call *)

\* the page argument decoded, when it is a bookmark string
DecodedPage(a) == unserialize_bookmark(RegistryWithY, a.page.s)

\* the Marker the arguments of a call stand for: the page marker (or the
\* decoded bookmark), (after, False), (before, True), else (None, False)
RequestedMarker(a) ==
    IF a.page.kind = "marker" THEN a.page.m
    ELSE IF a.page.kind = "str" /\ DecodedPage(a).err = "ok"
    THEN Marker(PlainInts(DecodedPage(a).v.place), DecodedPage(a).v.backwards)
    ELSE IF a.after.kind = "tuple" THEN Marker(Place(a.after.v), FALSE)
    ELSE IF a.before.kind = "tuple" THEN Marker(Place(a.before.v), TRUE)
    ELSE Marker(NoPlace, FALSE)

Called == result.err # "none"
Returned == result.err = "ok"

\* C6: on every non-empty page, in either direction, next is the keyset of
\* the last row of paging.rows going forwards, previous the keyset of the
\* first row going backwards, and is_full says the page has per_page rows.
C6_BoundaryMarkers ==
    (Returned /\ Len(result.v.rows) > 0) =>
        LET p == result.v
        IN  /\ next(p) = Marker(Place(KeyOf(p.rows[Len(p.rows)], order_by)), FALSE)
            /\ previous(p) = Marker(Place(KeyOf(p.rows[1], order_by)), TRUE)
            /\ is_full(p) <=> (Len(p.rows) = per_page)

\* C6's case: a full page of two rows fetched backwards from a keyset, with
\* a row left before it
C6_Witness ==
    /\ Returned /\ args.before.kind = "tuple"
    /\ result.v.backwards /\ Len(result.v.rows) = 2 /\ per_page = 2
    /\ has_previous(result.v) /\ Len(order_by) = 2

\* C7: the current marker of every returned page is the marker the
\* arguments stand for.
C7_CurrentIsRequest ==
    Returned => current(result.v) = RequestedMarker(args)

\* C8: an empty page has no further page, its further marker is its
\* current marker and its opposite marker is (None, not backwards); every
\* page without a further page has the opposite marker (None, not backwards).
C8_TerminalEmptyPage ==
    Returned =>
        LET p == result.v
            terminal == current_opposite(p) = Marker(NoPlace, ~p.backwards)
        IN  /\ Len(p.rows) = 0 =>
                (~has_further(p) /\ further(p) = current(p) /\ terminal)
            /\ ~has_further(p) => terminal

\* C8's case: an empty page fetched backwards from a keyset, over a table
\* that has rows
C8_Witness ==
    /\ Returned /\ Len(result.v.rows) = 0 /\ result.v.backwards
    /\ args.before.kind = "tuple" /\ table # {}

\* the keyset a call is given, if it is given one
GivenKeyset(a) == RequestedMarker(a).place

\* C9: a call given a keyset whose length differs from the number of
\* ordering columns raises InvalidPage.
C9_ArityMismatchFails ==
    (Called /\ NumGiven(args) = 1 /\ ~GivenKeyset(args).isNone
        /\ Len(GivenKeyset(args).v) # Len(order_by))
        => result.err \in {"InvalidPage", "BadBookmark"}

\* the error a page argument that is a bookmark string fails to decode with
DecodeError(a) ==
    IF a.page.kind = "str" /\ DecodedPage(a).err # "ok"
    THEN DecodedPage(a).err ELSE "ok"

----------------------------------------------------------------------------
(* CodecSpec: a string, a value, a keyset or a marker is encoded and the   *)
(* encoding is decoded again (tests/test_ser.py test_escape, test_unserial *)
(* and tests/test_paging.py test_bookmarks)                                *)

CodecInput(s, x, m) == [s |-> s, x |-> x, m |-> m]

\* the strings handed to escape
EscapeInputs == StringsUpTo(MaxStrLen)

\* the values handed to serialize_value
ValueInputs ==
    {VNone, VBool(TRUE), VBool(FALSE)}
        \cup {VInt(n) : n \in (-MaxInt)..MaxInt}
        \cup {VStr(x) : x \in StringsUpTo(MaxStrLen)}
        \cup {VY(x) : x \in StringsUpTo(MaxKeyStrLen)}

\* the values of a keyset: a few plain ones, and strings
PlainKeyValues == {VNone, VBool(TRUE), VInt(-MaxInt)}
TextKeyValues ==
    {VStr(x) : x \in StringsUpTo(MaxKeyStrLen)}
        \cup {VY(x) : x \in StringsOfLen(1)}

RECURSIVE PlainKeysetsOfLen(_)
PlainKeysetsOfLen(k) ==
    IF k = 0 THEN {<<>>}
    ELSE {Append(ks, v) : ks \in PlainKeysetsOfLen(k - 1), v \in PlainKeyValues}

\* the keysets handed to serialize_values: up to MaxKeyLen values, at most
\* one of them a string
KeysetInputs ==
    UNION {PlainKeysetsOfLen(k) : k \in 0..MaxKeyLen}
        \cup UNION {{[ks EXCEPT ![i] = v] : ks \in PlainKeysetsOfLen(k),
                                             i \in 1..k, v \in TextKeyValues} :
                    k \in 1..MaxKeyLen}

PlaceInputs == {NoPlace} \cup {Place(ks) : ks \in KeysetInputs}
MarkerInputs == {Marker(p, b) : p \in PlaceInputs, b \in BOOLEAN}

CodecInit ==
    /\ ExprIdle /\ WhereIdle /\ MoreIdle /\ RegistryInit /\ QueryIdle /\ CallIdle /\ TraversalIdle
    /\ c_pc = "encode" /\ c_mid = NoResult /\ c_out = NoResult
    /\ \/ c_op = "escape"
          /\ c_in \in {CodecInput(x, VNone, Marker(NoPlace, FALSE)) : x \in EscapeInputs}
       \/ c_op = "value"
          /\ c_in \in {CodecInput(<<>>, x, Marker(NoPlace, FALSE)) : x \in ValueInputs}
       \/ c_op = "values"
          /\ c_in \in {CodecInput(<<>>, VNone, Marker(p, FALSE)) : p \in PlaceInputs}
       \/ c_op = "bookmark"
          /\ c_in \in {CodecInput(<<>>, VNone, m) : m \in MarkerInputs}

CodecUnchanged == UNCHANGED <<moreVars, exprVars, whereVars, registryVars, queryVars, callVars, traversalVars, c_op, c_in>>

\* escape(x)
DoEscape ==
    /\ c_op = "escape" /\ c_pc = "encode"
    /\ c_mid' = Ok(escape(c_in.s))
    /\ c_pc' = "decode"
    /\ UNCHANGED c_out /\ CodecUnchanged

\* unescape(escape(x))
DoUnescape ==
    /\ c_op = "escape" /\ c_pc = "decode"
    /\ c_out' = Ok(unescape(c_mid.v))
    /\ c_pc' = "done"
    /\ UNCHANGED c_mid /\ CodecUnchanged

\* s.serialize_value(v)
SerializeValue ==
    /\ c_op = "value" /\ c_pc = "encode"
    /\ c_mid' = serialize_value(Registry, c_in.x)
    /\ c_pc' = "decode"
    /\ UNCHANGED c_out /\ CodecUnchanged

\* s.unserialize_value(s.serialize_value(v))
UnserializeValue ==
    /\ c_op = "value" /\ c_pc = "decode" /\ c_mid.err = "ok"
    /\ c_out' = unserialize_value(Registry, c_mid.v)
    /\ c_pc' = "done"
    /\ UNCHANGED c_mid /\ CodecUnchanged

\* s.serialize_values(keyset)
SerializeValues ==
    /\ c_op = "values" /\ c_pc = "encode"
    /\ c_mid' = serialize_values(Registry, c_in.m.place)
    /\ c_pc' = "decode"
    /\ UNCHANGED c_out /\ CodecUnchanged

\* s.unserialize_values(s.serialize_values(keyset))
UnserializeValues ==
    /\ c_op = "values" /\ c_pc = "decode" /\ c_mid.err = "ok"
    /\ c_out' = unserialize_values(Registry, c_mid.v)
    /\ c_pc' = "done"
    /\ UNCHANGED c_mid /\ CodecUnchanged

\* serialize_bookmark(marker)
SerializeBookmark ==
    /\ c_op = "bookmark" /\ c_pc = "encode"
    /\ c_mid' = serialize_bookmark(Registry, c_in.m)
    /\ c_pc' = "decode"
    /\ UNCHANGED c_out /\ CodecUnchanged

\* unserialize_bookmark(serialize_bookmark(marker))
UnserializeBookmark ==
    /\ c_op = "bookmark" /\ c_pc = "decode" /\ c_mid.err = "ok"
    /\ c_out' = unserialize_bookmark(Registry, c_mid.v)
    /\ c_pc' = "done"
    /\ UNCHANGED c_mid /\ CodecUnchanged

CodecNext ==
    \/ DoEscape \/ DoUnescape
    \/ SerializeValue \/ UnserializeValue
    \/ SerializeValues \/ UnserializeValues
    \/ SerializeBookmark \/ UnserializeBookmark

CodecSpec == CodecInit /\ [][CodecNext]_vars

----------------------------------------------------------------------------
(* Claims about the codec *)

\* a valid Marker: its keyset is None or a tuple of at least one value
ValidMarker(m) == m.place.isNone \/ Len(m.place.v) > 0

\* C3: every valid Marker decodes from its bookmark to an equal Marker, and
\* the bookmarks of (None, False) and (None, True) are ">" and "<".
C3_BookmarkRoundTrip ==
    (c_op = "bookmark" /\ ValidMarker(c_in.m)) =>
        /\ c_pc # "encode" =>
              /\ c_mid.err = "ok"
              /\ c_in.m.place.isNone =>
                    c_mid.v = (IF c_in.m.backwards THEN <<"<">> ELSE <<">">>)
        /\ c_pc = "done" => (c_out.err = "ok" /\ MarkerEq(c_out.v, c_in.m))

\* C4: unescape(escape(x)) is x for every string x.
C4_UnescapeInvertsEscape ==
    (c_op = "escape" /\ c_pc = "done") => c_out.v = c_in.s

\* C5: every value of a registered type decodes from its serialization to
\* an equal value.
C5_ValueRoundTrip ==
    (c_op = "value" /\ c_pc # "encode") =>
        /\ c_mid.err = "ok"
        /\ c_pc = "done" => (c_out.err = "ok" /\ PyEq(c_out.v, c_in.x))

----------------------------------------------------------------------------
(* RegistrySpec: types are registered with s.register_type, and values are *)
(* serialized and tokens unserialized under the registry as it stands      *)
(* (tests/test_ser.py test_register_type_twice, test_subclass_mro_order,   *)
(* test_serial, test_unserial)                                             *)

\* type.__mro__ of the classes of the model: class C(A, B), class D(C, B)
\* and class E of test_subclass_mro_order style, Y(str), bool(int)
MRO(type) ==
    CASE type = "D" -> <<"D", "C", "A", "B", "object">>
      [] type = "C" -> <<"C", "A", "B", "object">>
      [] type = "Y" -> <<"Y", "str", "object">>
      [] type = "bool" -> <<"bool", "int", "object">>
      [] OTHER -> <<type, "object">>

\* the types and codes register_type is called with
RegTypes == {"A", "B", "C", "int", "Y"}
RegCodes == {<<"s", "u", "b", "a">>, <<"s", "u", "b", "b">>, <<"s", "u", "b", "c">>,
             <<"i">>}

\* the serializer a type is registered with: def a(x): return "a" and so on
RegSerializer(type) ==
    CASE type = "A" -> "a" [] type = "B" -> "b" [] type = "C" -> "c"
      [] type = "Y" -> "reversestr" [] OTHER -> "str"

\* the deserializer a type is registered with: the type itself by default
RegDeserializer(type) == IF type = "Y" THEN "reversestr" ELSE type

\* the values serialize_value is called with
RegValues ==
    {VObj("A"), VObj("B"), VObj("C"), VObj("D"), VObj("E"),
     VFraction(0), VFraction(1), VFraction(2), VList,
     VNone, VBool(TRUE), VBool(FALSE), VInt(1), VY(<<"a">>)}

\* the tokens unserialize_value is called with: a code or keyword or
\* neither, alone or followed by a colon and a payload
TokenHeads ==
    {<<"s", "u", "b", "a">>, <<"i">>, <<"s">>, <<"x">>, <<"t", "r", "u", "e">>,
     <<"z", "z">>, <<>>}
TokenPayloads == {<<>>, <<"1">>, <<"a", ":", "b">>}
RegTokens == TokenHeads \cup {h \o <<":">> \o v : h \in TokenHeads, v \in TokenPayloads}

RegistrySpecInit ==
    /\ ExprIdle /\ WhereIdle /\ MoreIdle /\ RegistryInit /\ CodecIdle /\ QueryIdle /\ CallIdle /\ TraversalIdle

\* s.register_type(type, code, deserializer, serializer)
RegisterType ==
    /\ \E type \in RegTypes, code \in RegCodes :
        LET r == register_type(Registry, type, code,
                               RegDeserializer(type), RegSerializer(type))
        IN  /\ reg_call' = [type |-> type, code |-> code]
            /\ reg_err' = r.err
            /\ serializers' = r.v.ser
            /\ deserializers' = r.v.deser
            /\ reg_log' = IF r.err = "ok"
                          THEN Append(reg_log, [type |-> type, code |-> code])
                          ELSE reg_log
    /\ c_op' = "none" /\ c_in' = <<>> /\ c_mid' = NoResult /\ c_out' = NoResult
    /\ c_pc' = "idle"
    /\ UNCHANGED <<moreVars, exprVars, whereVars, queryVars, callVars, traversalVars>>

\* s.serialize_value(x) under the registry as it stands
SerializeUnder ==
    /\ c_pc = "idle"
    /\ \E x \in RegValues :
        /\ c_in' = CodecInput(<<>>, x, Marker(NoPlace, FALSE))
        /\ c_mid' = serialize_value(Registry, x)
    /\ c_op' = "serialize" /\ c_out' = NoResult /\ c_pc' = "done"
    /\ UNCHANGED <<moreVars, exprVars, whereVars, registryVars, queryVars, callVars, traversalVars>>

\* s.unserialize_value(token) under the registry as it stands
UnserializeUnder ==
    /\ c_pc = "idle"
    /\ \E token \in RegTokens :
        /\ c_in' = CodecInput(token, VNone, Marker(NoPlace, FALSE))
        /\ c_out' = unserialize_value(Registry, token)
    /\ c_op' = "unserialize" /\ c_mid' = NoResult /\ c_pc' = "done"
    /\ UNCHANGED <<moreVars, exprVars, whereVars, registryVars, queryVars, callVars, traversalVars>>

RegistryNext == RegisterType \/ SerializeUnder \/ UnserializeUnder

RegistrySpec == RegistrySpecInit /\ [][RegistryNext]_vars

\* the types and the codes of the registrations that succeeded
LoggedTypes == {reg_log[i].type : i \in 1..Len(reg_log)}
LoggedCodes == {reg_log[i].code : i \in 1..Len(reg_log)}

\* C11: register_type raises ConfigurationError exactly when the type
\* already has a serializer or the code is in use, so no type and no code
\* is registered twice and the two tables hold what was registered.
C11_RegisteredOnce ==
    /\ \A i \in 1..Len(reg_log) : \A j \in 1..Len(reg_log) :
          i # j => (reg_log[i].type # reg_log[j].type
                    /\ reg_log[i].code # reg_log[j].code)
    /\ DOMAIN serializers = LoggedTypes
    /\ DOMAIN deserializers = LoggedCodes
    /\ \A i \in 1..Len(reg_log) : serializers[reg_log[i].type].code = reg_log[i].code
    /\ reg_err = "ok" => reg_log[Len(reg_log)] = reg_call
    /\ reg_err \in {"ok", "ConfigurationError", "none"}
    /\ reg_err = "ConfigurationError" =>
          (reg_call.type \in LoggedTypes \/ reg_call.code \in LoggedCodes)

\* C11's case: after two registrations of new types, one of a new type
\* under a code in use was refused
C11_Witness ==
    /\ Len(reg_log) = Len(InitialLog) + 2
    /\ reg_err = "ConfigurationError"
    /\ reg_call.type \notin LoggedTypes /\ reg_call.code \in LoggedCodes

\* the first class of a method-resolution order that has a serializer
\* registered, "none" if none has
RECURSIVE FirstRegistered(_, _)
FirstRegistered(reg, mro) ==
    IF Len(mro) = 0 THEN "none"
    ELSE IF Head(mro) \in DOMAIN reg.ser THEN Head(mro)
    ELSE FirstRegistered(reg, Tail(mro))

Serialized == c_op = "serialize" /\ c_pc = "done"
Unserialized == c_op = "unserialize" /\ c_pc = "done"

\* C12: serialize_value(x) uses the serializer of the first class in
\* type(x)'s method-resolution order that has one registered, as the
\* registry stands at the call.
C12_ResolvesByMRO ==
    (Serialized /\ c_in.x.t \notin {"NoneType", "bool"}
        /\ FirstRegistered(Registry, MRO(c_in.x.t)) # "none") =>
        LET entry == serializers[FirstRegistered(Registry, MRO(c_in.x.t))]
        IN  c_mid = Ok(entry.code \o <<":">> \o ApplySerializer(entry.ser, c_in.x).v)

\* C13: serialize_value(x) raises UnregisteredType for every x other than
\* None, True and False whose type has no applicable serializer registered.
C13_UnregisteredFailsCleanly ==
    (Serialized /\ FirstRegistered(Registry, MRO(c_in.x.t)) = "none"
        /\ c_in.x \notin {VNone, VBool(TRUE), VBool(FALSE)}) =>
        c_mid.err = "UnregisteredType"

\* the part of a token before its first colon, and whether it has a colon
HasColon(token) == FirstIndexOf(token, ":", 1) # 0
TokenHead(token) == SubSeq(token, 1, FirstIndexOf(token, ":", 1) - 1)

\* C14 (as amended): unserialize_value raises BadBookmark, and no other
\* error, for every colon-free token other than the three keywords, for
\* every token whose part before the first colon is neither a registered
\* code nor one of the three keywords, and when the registered
\* deserializer raises; a token whose part before the colon is a keyword
\* and not a registered code yields the keyword's value.
C14_UnknownCodesRejected ==
    Unserialized =>
        LET token == c_in.s
            head  == TokenHead(token)
        IN  /\ c_out.err \in {"ok", "BadBookmark"}
            /\ ~HasColon(token) =>
                  IF token \in DOMAIN BUILTINS THEN c_out = Ok(BUILTINS[token])
                  ELSE c_out.err = "BadBookmark"
            /\ (HasColon(token) /\ head \notin DOMAIN deserializers) =>
                  IF head \in DOMAIN BUILTINS THEN c_out = Ok(BUILTINS[head])
                  ELSE c_out.err = "BadBookmark"
            /\ (HasColon(token) /\ head \in DOMAIN deserializers
                  /\ deserializers[head] \in {"A", "B", "C"}) =>
                  c_out.err = "BadBookmark"

\* C14 as stated: no token whose part before the first colon is not a
\* registered code yields a value.
C14_NoValueForUnknownCode ==
    (Unserialized /\ HasColon(c_in.s) /\ TokenHead(c_in.s) \notin DOMAIN deserializers)
        => c_out.err = "BadBookmark"

\* C14's case: with the code "suba" registered, its token was rejected
\* because the deserializer raised, and so was a token of an unknown code
C14_Witness ==
    /\ Unserialized /\ c_out.err = "BadBookmark"
    /\ <<"s", "u", "b", "a">> \in DOMAIN deserializers
    /\ c_in.s = <<"s", "u", "b", "a", ":", "1">>

----------------------------------------------------------------------------
(* More claims about one call *)

\* the keyset k1 sorts strictly before the keyset k2 under ocols: at the
\* first column where they differ, k1 is smaller if the column is
\* ascending and greater if it is descending
RECURSIVE KeyPrecedes(_, _, _)
KeyPrecedes(k1, k2, ocols) ==
    IF Len(ocols) = 0 \/ Len(k1) = 0 \/ Len(k2) = 0 THEN FALSE
    ELSE IF Head(k1) # Head(k2)
    THEN (IF Head(ocols).asc THEN Head(k1) < Head(k2) ELSE Head(k1) > Head(k2))
    ELSE KeyPrecedes(Tail(k1), Tail(k2), Tail(ocols))

RowPrecedes(r1, r2) == KeyPrecedes(KeyOf(r1, order_by), KeyOf(r2, order_by), order_by)

\* C15: on every non-empty page over rows with distinct keys, has_previous
\* says whether the result set has a row before the page's first row, and
\* has_next whether it has a row after the page's last row.
C15_HasNextHasPrevious ==
    (Returned /\ Len(result.v.rows) > 0 /\ DistinctKeys(table, order_by)) =>
        LET p == result.v
        IN  /\ has_previous(p) <=> (\E r \in table : RowPrecedes(r, p.rows[1]))
            /\ has_next(p) <=> (\E r \in table : RowPrecedes(p.rows[Len(p.rows)], r))

\* the call was given no keyset, or one with a value for each ordering column
WellFormedRequest ==
    \/ RequestedMarker(args).place.isNone
    \/ Len(RequestedMarker(args).place.v) = Len(order_by)

\* the last n entries of a list
LastN(list, n) == SubSeq(list, IF n < Len(list) THEN Len(list) - n + 1 ELSE 1, Len(list))

\* C16: a page fetched backwards lists, in the original query order, the
\* up to per_page rows that come immediately before the marker (the last
\* rows of the result set when the marker has no keyset).
C16_BackwardsKeepsOrder ==
    (Returned /\ result.v.backwards /\ WellFormedRequest) =>
        LET place  == RequestedMarker(args).place
            before == IF place.isNone THEN table
                      ELSE {r \in table : KeyPrecedes(KeyOf(r, order_by), place.v, order_by)}
        IN  \E o \in Orderings(before, order_by) :
                result.v.rows = LastN(o, per_page)

\* C16's case: two rows fetched backwards from a keyset, with a row before
\* them and a row past the keyset
C16_Witness ==
    /\ Returned /\ result.v.backwards /\ args.before.kind = "tuple"
    /\ Len(result.v.rows) = 2 /\ per_page = 2 /\ Cardinality(table) = 3
    /\ has_previous(result.v)
    /\ RowPrecedes(result.v.rows[1], result.v.rows[2])
    /\ order_by = <<OC(1, FALSE), OC(2, TRUE)>>

----------------------------------------------------------------------------
(* WhereSpec: one evaluation of compare_tuples, or of the condition of     *)
(* where_condition_for_page on a row (paging.py)                           *)

\* the lengths of the tuples handed to compare_tuples
TupleLens == {1, 2, 3}

TuplesOfLen(n) == [1..n -> Vals]

Dialects == {"native", "manual"}

WhereInit ==
    /\ ExprIdle /\ WhereIdle /\ MoreIdle /\ RegistryInit /\ CodecIdle /\ QueryIdle /\ CallIdle
    /\ TraversalIdle

\* compare_tuples(lesser, greater, dialect), the expression evaluated
CompareTuples ==
    /\ w_op = "none"
    /\ \E n \in TupleLens, k \in TupleLens, dialect \in Dialects :
        \E lesser \in TuplesOfLen(n), greater \in TuplesOfLen(k) :
            /\ w_in' = [lesser |-> lesser, greater |-> greater, dialect |-> dialect]
            /\ w_out' = compare_tuples(lesser, greater, dialect)
    /\ w_op' = "compare"
    /\ UNCHANGED <<moreVars, exprVars, registryVars, codecVars, queryVars, callVars,
                   traversalVars>>

\* where_condition_for_page(ordering_columns, place, dialect), the
\* condition evaluated on a row
WherePage ==
    /\ w_op = "none"
    /\ \E ordering_columns \in OrderBys, n \in 1..2, dialect \in Dialects :
        \E place \in TuplesOfLen(n), row \in Rows :
            LET cond == where_condition_for_page(ordering_columns, place, dialect)
            IN  /\ w_in' = [ordering_columns |-> ordering_columns, place |-> place,
                            row |-> row, dialect |-> dialect]
                /\ w_out' = IF cond.err = "ok" THEN Ok(ConditionHolds(cond.v, row))
                            ELSE cond
    /\ w_op' = "where"
    /\ UNCHANGED <<moreVars, exprVars, registryVars, codecVars, queryVars, callVars,
                   traversalVars>>

WhereNext == CompareTuples \/ WherePage

WhereSpec == WhereInit /\ [][WhereNext]_vars

----------------------------------------------------------------------------
(* Claims about the page filter *)

\* n ascending ordering columns
AllAscending(n) == [i \in 1..n |-> OC(1, TRUE)]

OtherDialect(dialect) == IF dialect = "native" THEN "manual" ELSE "native"

\* C19: for tuples of equal length, compare_tuples yields the same truth
\* value with and without native tuple comparison: the lexicographic
\* lesser < greater, which for length 1 is the plain lesser[0] < greater[0].
C19_NativeAndManualAgree ==
    (w_op = "compare" /\ Len(w_in.lesser) = Len(w_in.greater)) =>
        /\ w_out = compare_tuples(w_in.lesser, w_in.greater, OtherDialect(w_in.dialect))
        /\ w_out = Ok(KeyPrecedes(w_in.lesser, w_in.greater,
                                  AllAscending(Len(w_in.lesser))))
        /\ Len(w_in.lesser) = 1 => w_out = Ok(w_in.lesser[1] < w_in.greater[1])

\* C19's case: the manual expansion of tuples of three that agree in their
\* first two columns, decided by the third
C19_Witness ==
    /\ w_op = "compare" /\ w_in.dialect = "manual"
    /\ Len(w_in.lesser) = 3 /\ Len(w_in.greater) = 3
    /\ w_in.lesser[1] = w_in.greater[1] /\ w_in.lesser[2] = w_in.greater[2]
    /\ w_in.lesser[3] < w_in.greater[3]
    /\ w_out = Ok(TRUE)

----------------------------------------------------------------------------
(* ORDER BY expressions as objects (columns.py)                            *)
(*                                                                         *)
(* An SQLAlchemy expression is an object on the heap: a column, with a     *)
(* name and no element attribute, or a wrapper with an element attribute   *)
(* that refers to the expression it wraps and a modifier: "asc", "desc",   *)
(* "nullsfirst", "nullslast", or "none" for a wrapper that is not an       *)
(* ordering modifier (a label).  Objects are numbered in the order they    *)
(* are made.  _clone() makes a shallow copy: the copy refers to the same   *)
(* element.  _copy_internals() replaces the element by a clone of it.      *)

\* the OC objects a run makes
MaxOCs == 3

NoElement == 0

Column(name) == [modifier |-> "none", element |-> NoElement, name |-> name]
Wrapper(modifier, element) == [modifier |-> modifier, element |-> element, name |-> ""]

\* ce._clone(): the heap with the copy, and the copy
clone(h, ce) == [heap |-> Append(h, h[ce]), id |-> Len(h) + 1]

\* a faulty _copy_internals that leaves the element shared
copy_internals_shared(h, x) == h

\* x._copy_internals(): the heap afterwards
copy_internals(h, x) ==
    LET c == clone(h, h[x].element)
    IN  [c.heap EXCEPT ![x].element = c.id]

\* columns.py _get_order_direction: "asc", "desc" or "none"
RECURSIVE get_order_direction(_, _)
get_order_direction(h, x) ==
    IF h[x].modifier \in {"asc", "desc"} THEN h[x].modifier
    ELSE IF h[x].element = NoElement THEN "none"
    ELSE get_order_direction(h, h[x].element)

\* the loop of _reverse_order_direction, at x under the copy it returns
RECURSIVE reverse_order_direction_at(_, _, _)
reverse_order_direction_at(h, copied, x) ==
    IF h[x].modifier \in {"asc", "desc"}
    THEN [heap |-> [h EXCEPT ![x].modifier = IF @ = "asc" THEN "desc" ELSE "asc"],
          id |-> copied]
    ELSE IF h[x].element = NoElement THEN [heap |-> h, id |-> copied]
    ELSE LET h2 == copy_internals(h, x)
         IN  reverse_order_direction_at(h2, copied, h2[x].element)

\* columns.py _reverse_order_direction
reverse_order_direction(h, ce) ==
    LET c == clone(h, ce)
    IN  reverse_order_direction_at(c.heap, c.id, c.id)

\* the loop of _remove_order_direction, at x below parent (NoElement: none)
RECURSIVE remove_order_direction_at(_, _, _, _)
remove_order_direction_at(h, copied, parent, x) ==
    IF h[x].modifier \in {"asc", "desc", "nullsfirst", "nullslast"}
    THEN LET h2 == copy_internals(h, x)
             el == h2[x].element
         IN  IF parent = NoElement
             THEN remove_order_direction_at(h2, el, parent, el)
             ELSE remove_order_direction_at([h2 EXCEPT ![parent].element = el],
                                            copied, parent, el)
    ELSE IF h[x].element = NoElement THEN [heap |-> h, id |-> copied]
    ELSE LET h2 == copy_internals(h, x)
         IN  remove_order_direction_at(h2, copied, x, h2[x].element)

\* columns.py _remove_order_direction
remove_order_direction(h, ce) ==
    LET c == clone(h, ce)
    IN  remove_order_direction_at(c.heap, c.id, NoElement, c.id)

\* str(x): the column's name, then the modifiers from the inside out
RECURSIVE Str(_, _)
Str(h, x) ==
    IF h[x].element = NoElement THEN <<h[x].name>>
    ELSE IF h[x].modifier = "none" THEN Str(h, h[x].element)
    ELSE Append(Str(h, h[x].element), h[x].modifier)

\* OC.__init__(x): the heap afterwards and the new OC's uo
OC_init(h, x) ==
    IF get_order_direction(h, x) = "none"
    THEN [heap |-> Append(h, Wrapper("asc", x)), uo |-> Len(h) + 1]
    ELSE [heap |-> h, uo |-> x]

\* OC.is_ascending
is_ascending(h, uo) == get_order_direction(h, uo) = "asc"

\* OC.element: what it renders as, and the heap after the call
element(h, uo) ==
    LET r == remove_order_direction(h, uo)
    IN  [heap |-> r.heap, str |-> Str(r.heap, r.id)]

\* OC.reversed: the heap afterwards and the new OC's uo
OC_reversed(h, uo) ==
    LET r == reverse_order_direction(h, uo)
    IN  OC_init(r.heap, r.id)

\* the ordering modifiers and wrappers an expression is built from
Modifiers == {"asc", "desc", "nullsfirst", "nullslast", "none"}

\* the expressions handed to OC(...): a column under up to two wrappers,
\* the outermost first
Expressions == {<<>>} \cup {<<m>> : m \in Modifiers}
                   \cup {<<m1, m2>> : m1 \in Modifiers, m2 \in Modifiers}

\* the caller builds the expression e over the column "a": the heap
\* afterwards and the expression's object
RECURSIVE Build(_, _)
Build(h, e) ==
    IF Len(e) = 0 THEN [heap |-> Append(h, Column("a")), id |-> Len(h) + 1]
    ELSE LET inner == Build(h, Tail(e))
         IN  [heap |-> Append(inner.heap, Wrapper(Head(e), inner.id)),
              id |-> Len(inner.heap) + 1]

\* the record kept of an OC: its uo, how it was made, and its direction,
\* rendering and element when it was made
Made(h, uo, how, of) ==
    [uo |-> uo, how |-> how, of |-> of,
     asc0 |-> is_ascending(h, uo), str0 |-> Str(h, uo), el0 |-> element(h, uo).str]

\* oc = OC(expression)
MakeOC ==
    /\ Len(ocs) < MaxOCs
    /\ \E e \in Expressions :
        LET b == Build(heap, e)
            o == OC_init(b.heap, b.id)
        IN  /\ heap' = o.heap
            /\ ocs' = Append(ocs, Made(o.heap, o.uo, "new", 0))
    /\ UNCHANGED <<moreVars, whereVars, registryVars, codecVars, queryVars, callVars,
                   traversalVars>>

\* oc = ocs[i].reversed
Reverse ==
    /\ Len(ocs) < MaxOCs
    /\ \E i \in 1..Len(ocs) :
        LET o == OC_reversed(heap, ocs[i].uo)
        IN  /\ heap' = o.heap
            /\ ocs' = Append(ocs, Made(o.heap, o.uo, "reversed", i))
    /\ UNCHANGED <<moreVars, whereVars, registryVars, codecVars, queryVars, callVars,
                   traversalVars>>

ExprInit ==
    /\ ExprIdle /\ WhereIdle /\ MoreIdle /\ RegistryInit /\ CodecIdle /\ QueryIdle /\ CallIdle
    /\ TraversalIdle

ExprNext == MakeOC \/ Reverse

ExprSpec == ExprInit /\ [][ExprNext]_vars

----------------------------------------------------------------------------
(* Claims about OC *)

\* C18: oc.reversed is a new OC of the opposite direction; reversing leaves
\* every existing OC with the direction, the element and the rendering it
\* was made with; and oc.reversed.reversed has the direction and the
\* rendering of oc, with and without NULLS FIRST / NULLS LAST wrappers.
C18_ReversedIsInvolution ==
    \A i \in 1..Len(ocs) :
        LET oc == ocs[i]
        IN  /\ is_ascending(heap, oc.uo) = oc.asc0
            /\ Str(heap, oc.uo) = oc.str0
            /\ element(heap, oc.uo).str = oc.el0
            /\ SubSeq(element(heap, oc.uo).heap, 1, Len(heap)) = heap
            /\ \A j \in 1..Len(ocs) : ocs[j].uo = oc.uo => j = i
            /\ oc.how = "reversed" =>
                  /\ oc.asc0 = ~ocs[oc.of].asc0
                  /\ oc.el0 = ocs[oc.of].el0
                  /\ ocs[oc.of].how = "reversed" =>
                        /\ oc.asc0 = ocs[ocs[oc.of].of].asc0
                        /\ oc.str0 = ocs[ocs[oc.of].of].str0

\* C18's case: n = OC(nullslast(desc("a"))), then n.reversed, then
\* n.reversed.reversed
C18_Witness ==
    /\ Len(ocs) = 3
    /\ ocs[1].str0 = <<"a", "desc", "nullslast">>
    /\ ocs[2].how = "reversed" /\ ocs[2].of = 1
    /\ ocs[3].how = "reversed" /\ ocs[3].of = 2
    /\ ocs[2].str0 = <<"a", "asc", "nullslast">>

----------------------------------------------------------------------------
(* Claims about the excess row *)

\* the rows strictly past the requested marker in its paging direction: all
\* rows when the marker has no keyset
PastMarker(m) ==
    IF m.place.isNone THEN table
    ELSE IF m.backwards
    THEN {r \in table : KeyPrecedes(KeyOf(r, order_by), m.place.v, order_by)}
    ELSE {r \in table : KeyPrecedes(m.place.v, KeyOf(r, order_by), order_by)}

\* C21: has_further is True exactly when more than per_page rows lie
\* strictly past the marker in the paging direction; then the page holds
\* exactly per_page rows; and the excess row fetched is not on the page.
C21_HasFurtherExact ==
    (Returned /\ WellFormedRequest) =>
        LET p == result.v
        IN  /\ has_further(p) <=> (Cardinality(PastMarker(RequestedMarker(args))) > per_page)
            /\ has_further(p) => Len(p.rows) = per_page
            /\ Len(p.rows) <= per_page
            /\ Len(p.original_rows) > per_page =>
                  \A i \in 1..Len(p.rows) : p.rows[i] # p.original_rows[per_page + 1]

\* C21's case: a backwards page of two rows from a keyset, with an excess
\* row fetched
C21_Witness ==
    /\ Returned /\ WellFormedRequest /\ result.v.backwards
    /\ ~RequestedMarker(args).place.isNone
    /\ per_page = 2 /\ Len(result.v.original_rows) = 3
    /\ has_further(result.v)

----------------------------------------------------------------------------
(* Claims about fetching again from a page's markers *)

\* the pages get_page(q, per_page, page=m) may return over the table as it is
FetchAt(m) ==
    get_page(Registry, table, order_by, db_dialect, per_page, ArgNone, ArgNone,
             PageMarker(m))

\* every page fetched at m has the rows of p, in the same order
SameRowsAt(m, p) == \A r \in FetchAt(m) : r.err = "ok" /\ r.v.rows = p.rows

\* C26 (as stated): for every non-empty page over rows with distinct
\* keysets, fetching at current_opposite returns the rows of the page.
C26_OppositeSamePage ==
    (Returned /\ Len(result.v.rows) > 0 /\ DistinctKeys(table, order_by)) =>
        SameRowsAt(current_opposite(result.v), result.v)

\* C26 (amended): for every full non-empty page over rows with distinct
\* keysets, fetching at current_opposite returns the rows of the page, in
\* the same order.
C26_OppositeSameFullPage ==
    (Returned /\ Len(result.v.rows) > 0 /\ DistinctKeys(table, order_by)
        /\ is_full(result.v)) =>
        SameRowsAt(current_opposite(result.v), result.v)

\* C26's case: a full page of two rows fetched forwards from a keyset, with
\* a row beyond it, so that the opposite marker carries a keyset
C26_Witness ==
    /\ Returned /\ ~result.v.backwards /\ args.after.kind = "tuple"
    /\ per_page = 2 /\ Len(result.v.rows) = 2 /\ has_next(result.v)
    /\ DistinctKeys(table, order_by)
    /\ ~current_opposite(result.v).place.isNone

\* C28: over rows with distinct keysets, for every non-empty page P fetched
\* forwards, every page Q fetched at P.previous is returned, and every page
\* fetched at Q.next has exactly the rows of P.
C28_BackAndForth ==
    (Returned /\ ~result.v.backwards /\ Len(result.v.rows) > 0
        /\ DistinctKeys(table, order_by)) =>
        \A q \in FetchAt(previous(result.v)) :
            /\ q.err = "ok"
            /\ SameRowsAt(next(q.v), result.v)

\* C28's case: a page fetched forwards from a keyset, with a full page of
\* two rows before it
C28_Witness ==
    /\ Returned /\ ~result.v.backwards /\ Len(result.v.rows) > 0
    /\ args.after.kind = "tuple" /\ per_page = 2
    /\ DistinctKeys(table, order_by)
    /\ \E q \in FetchAt(previous(result.v)) : q.err = "ok" /\ Len(q.v.rows) = 2

----------------------------------------------------------------------------
(* More claims about the traversal *)

\* the rows gathered before the last page, and the rows of the last page
EarlierRows ==
    IF result.v.backwards
    THEN SubSeq(gathered, Len(result.v.rows) + 1, Len(gathered))
    ELSE SubSeq(gathered, 1, Len(gathered) - Len(result.v.rows))

\* r1 comes strictly before r2 in the direction of the traversal
StrictlyPast(r1, r2) ==
    IF result.v.backwards THEN RowPrecedes(r2, r1) ELSE RowPrecedes(r1, r2)

\* C27 (amended): with inserts and deletes between the fetches, every row
\* of the page just fetched sorts strictly past every row of all earlier
\* pages, so no row is returned twice; and the keysets returned never
\* repeat when the ordering keys were pairwise distinct at every fetch.
C27_LaterPagesStrictlyPast ==
    (fetches > 0) =>
        /\ \A i \in 1..Len(EarlierRows) : \A j \in 1..Len(result.v.rows) :
              StrictlyPast(EarlierRows[i], result.v.rows[j])
        /\ \A i \in 1..Len(gathered) : \A j \in 1..Len(gathered) :
              gathered[i] = gathered[j] => i = j
        /\ distinct =>
              \A i \in 1..Len(gathered) : \A j \in 1..Len(gathered) :
                  KeyOf(gathered[i], order_by) = KeyOf(gathered[j], order_by) => i = j

\* C27 (as stated): moreover the keysets returned over the whole traversal
\* never repeat.
C27_KeysetsNeverRepeat ==
    (fetches > 0) =>
        /\ \A i \in 1..Len(EarlierRows) : \A j \in 1..Len(result.v.rows) :
              StrictlyPast(EarlierRows[i], result.v.rows[j])
        /\ \A i \in 1..Len(gathered) : \A j \in 1..Len(gathered) :
              KeyOf(gathered[i], order_by) = KeyOf(gathered[j], order_by) => i = j

\* C27's case: a second page that holds a row inserted after the first
\* fetch, past a first page one of whose rows has been deleted
C27_Witness ==
    /\ fetches = 2 /\ mods = 2 /\ Len(result.v.rows) > 0
    /\ Len(EarlierRows) > 0
    /\ \E i \in 1..Len(result.v.rows) : result.v.rows[i] \notin stable
    /\ \E i \in 1..Len(EarlierRows) : EarlierRows[i] \notin table

----------------------------------------------------------------------------
(* TraversalSpec: the traversal over an unchanged result set.  The loop of *)
(* check_paging_orm fetches the next page as long as the last one had      *)
(* rows, so the fetch is weakly fair.                                      *)

\* FetchFurther as far as fairness needs it: get_page returns a page or
\* raises, so FetchFurther is enabled exactly when a page is to be fetched,
\* and a step of the traversal is a step that counts a fetch
FetchStep == t_pc = "fetch" /\ fetches' = fetches + 1

TraversalSpec == Init /\ [][FetchFurther]_vars /\ WF_fetches(FetchStep)

\* ceil(n / d) for d >= 1
CeilDiv(n, d) == (n + d - 1) \div d

\* the marker m2 lies strictly past the marker m1 in the direction of m2
MarkerAdvanced(m1, m2) ==
    /\ ~m2.place.isNone
    /\ m1.place.isNone
        \/ IF m2.backwards THEN KeyPrecedes(m2.place.v, m1.place.v, order_by)
                            ELSE KeyPrecedes(m1.place.v, m2.place.v, order_by)

\* what holds all along an unchanged traversal: no fetch fails, the number
\* of fetches stays within ceil(rows / per_page) + 1, the marker advances
\* strictly on every non-empty page, and the traversal ends on an empty
\* page with no further page
TraversalBounded ==
    /\ t_pc # "failed"
    /\ fetches <= CeilDiv(Cardinality(table), per_page) + 1
    /\ (fetches > 0 /\ Len(result.v.rows) > 0) =>
          /\ t_pc = "fetch"
          /\ t_marker.backwards = args.page.m.backwards
          /\ MarkerAdvanced(args.page.m, t_marker)
    /\ t_pc = "done" =>
          /\ Len(result.v.rows) = 0
          /\ ~has_further(result.v)

\* C30: over an unchanged result set the traversal from (None, backwards)
\* along paging.further reaches an empty page with has_further False within
\* ceil(rows / per_page) + 1 fetches, and the marker advances strictly on
\* every non-empty page.
C30_TraversalTerminates ==
    /\ []TraversalBounded
    /\ <>(t_pc = "done")

\* C30's case: three rows paged backwards one at a time: the fourth fetch
\* returns the empty page
C30_Witness ==
    /\ t_pc = "done" /\ fetches = 4 /\ per_page = 1 /\ Cardinality(table) = 3
    /\ t_marker.backwards /\ Len(gathered) = 3

----------------------------------------------------------------------------
(* More claims about the registry *)

\* the deserializer the type was registered with: by Serial.__init__, by
\* the test suite, or by a call of the model
RegisteredWith(type) ==
    IF \E i \in 1..Len(TYPES) : TYPES[i].type = type
    THEN TYPES[CHOOSE i \in 1..Len(TYPES) : TYPES[i].type = type].deser
    ELSE RegDeserializer(type)

\* every registered type's code leads to the deserializer registered with
\* the type
DeserializersPaired ==
    \A type \in DOMAIN serializers :
        /\ serializers[type].code \in DOMAIN deserializers
        /\ deserializers[serializers[type].code] = RegisteredWith(type)

\* a step of register_type (the only step that leaves the codec idle)
\* succeeds and adds exactly the entry for its type and the entry for its
\* code; any other step, a failed register_type among them, leaves both
\* tables as they were
RegistrationFrame ==
    IF c_pc' = "idle" /\ reg_err' = "ok"
    THEN /\ reg_call'.type \notin DOMAIN serializers
         /\ reg_call'.code \notin DOMAIN deserializers
         /\ DOMAIN serializers' = DOMAIN serializers \cup {reg_call'.type}
         /\ DOMAIN deserializers' = DOMAIN deserializers \cup {reg_call'.code}
         /\ \A type \in DOMAIN serializers : serializers'[type] = serializers[type]
         /\ \A code \in DOMAIN deserializers : deserializers'[code] = deserializers[code]
    ELSE serializers' = serializers /\ deserializers' = deserializers

\* C29: a register_type call that raises ConfigurationError leaves both
\* tables as they were, a successful call adds exactly one entry to each,
\* and every registered type's code leads to the deserializer registered
\* with the type.
C29_FailedRegistrationChangesNothing ==
    /\ []DeserializersPaired
    /\ [][RegistrationFrame]_vars

\* C29's case: after one new registration, a call with a new type and a
\* code in use has failed
C29_Witness ==
    /\ Len(reg_log) = Len(InitialLog) + 1
    /\ reg_err = "ConfigurationError"
    /\ reg_call.type \notin DOMAIN serializers
    /\ reg_call.code \in DOMAIN deserializers
    /\ reg_call.code # <<"i">>

----------------------------------------------------------------------------
(* StatementSpec: the statements one pagination call executes on the       *)
(* caller's session, per SQLAlchemy version path (sqla.py picks sqla13,    *)
(* sqla14 or sqla20 by SQLA_VERSION)                                       *)

restVars == <<registryVars, codecVars, queryVars, callVars, traversalVars, exprVars,
              whereVars>>

RestIdle ==
    /\ ExprIdle /\ WhereIdle /\ RegistryInit /\ CodecIdle /\ QueryIdle /\ CallIdle
    /\ TraversalIdle

\* the most requests handed to one batched call, the most calls on a session
MaxRequests == 3
MaxCalls == 2

Versions == {"1.3", "1.4", "2.0"}

\* s.execute(statement) / query.all(): the statement as the session sees it
Execute(kind, n) == <<[kind |-> kind, requests |-> n]>>

\* a core_result_type that asks the database on every version path
core_result_type_any_version(version) == Execute("limit 0", 1)

\* sqla13.core_result_type executes selectable.limit(0) to learn the row
\* type; sqla14 and sqla20 return without touching the session

core_result_type(version) ==
    IF version = "1.3" THEN Execute("limit 0", 1) ELSE <<>>

\* core_get_page: core_result_type, prepare_paging, s.execute(sel.select)
core_get_page(version) == core_result_type(version) \o Execute("page", 1)

\* asyncio.core_get_page: the same with await s.execute(sel.select)
async_core_get_page(version) == core_result_type(version) \o Execute("page", 1)

\* orm_get_page: orm_result_type and orm_query_keys read the query's
\* column descriptions, then paging_query.query.all()
orm_get_page == Execute("page", 1)

\* get_homogeneous_pages(requests): nothing for no requests, else one
\* UNION ALL query.all()
get_homogeneous_pages(n) ==
    IF n = 0 THEN <<>> ELSE Execute("union all", n)

RECURSIVE _core_prepare_homogeneous_pages(_, _)
\* [_core_prepare_homogeneous_page(request, s, ...) for request in requests]:
\* each calls core_result_type(selectable, s)
_core_prepare_homogeneous_pages(version, n) ==
    IF n = 0 THEN <<>>
    ELSE _core_prepare_homogeneous_pages(version, n - 1) \o core_result_type(version)

\* select_homogeneous_pages(requests, s): nothing for no requests, one
\* request is farmed out to select_page, else the requests are prepared and
\* one UNION ALL is executed
select_homogeneous_pages(version, n) ==
    IF n = 0 THEN <<>>
    ELSE IF n = 1 THEN core_get_page(version)
    ELSE _core_prepare_homogeneous_pages(version, n) \o Execute("union all", n)

StatementInit ==
    /\ RestIdle /\ ResolveIdle /\ ThreadIdle
    /\ sqla_version \in Versions
    /\ s_call = <<>>
    /\ s_executed = <<>>

\* one call on the session: the call is logged with the statements it ran
SessionCall(api, n, statements) ==
    /\ Len(s_call) < MaxCalls
    /\ s_call' = Append(s_call, [api |-> api, requests |-> n])
    /\ s_executed' = Append(s_executed, statements)
    /\ UNCHANGED <<sqla_version, resolveVars, threadVars, restVars>>

GetPage ==
    /\ sqla_version \in Versions
    /\ SessionCall("get_page", 1, orm_get_page)

SelectPage ==
    /\ sqla_version \in Versions
    /\ SessionCall("select_page", 1, core_get_page(sqla_version))

\* sqlakeyset.asyncio imports sqlalchemy.ext.asyncio, which 1.3 lacks
AsyncSelectPage ==
    /\ sqla_version # "1.3"
    /\ SessionCall("asyncio.select_page", 1, async_core_get_page(sqla_version))

GetHomogeneousPages ==
    /\ sqla_version \in Versions
    /\ \E n \in 0..MaxRequests :
        SessionCall("get_homogeneous_pages", n, get_homogeneous_pages(n))

SelectHomogeneousPages ==
    /\ sqla_version \in Versions
    /\ \E n \in 0..MaxRequests :
        SessionCall("select_homogeneous_pages", n,
               select_homogeneous_pages(sqla_version, n))

StatementNext ==
    \/ GetPage
    \/ SelectPage
    \/ AsyncSelectPage
    \/ GetHomogeneousPages
    \/ SelectHomogeneousPages

StatementSpec == StatementInit /\ [][StatementNext]_vars

----------------------------------------------------------------------------
(* ResolveSpec: how the ordering columns of a call are mapped to result    *)
(* columns, in one call (prepare_paging) and in a batched call             *)
(* (_get_ordering_infos).  An ordering expression is the sequence of the   *)
(* tokens of its rendering, str(expression).split().                       *)

OrderExprs ==
    {<<"t.id">>, <<"t.a", "+", "t.b">>, <<"t.a", "-", "t.c">>, <<"lower(t.d)">>}

\* the columns the statement selects (selectable._raw_columns)
RawColumns == << <<"t.id">> >>

OrderLens == {1, 2}
BatchSizes == {1, 2}

\* AppendedColumn._counter at the calls that are followed
MaxCounter == 3

\* MappedOrderColumn.extra_column of a column that needs none
NoExtraColumn == [element |-> <<>>, name |-> <<"", 0>>]

\* expression.label(name)
Labelled(expression, name) == [element |-> expression, name |-> name]

\* DirectColumn(oc, index)
DirectColumn(oc, index) ==
    [kind |-> "Direct", oc |-> oc, index |-> index, extra_column |-> NoExtraColumn]

\* AppendedColumn(oc), constructed when the class counter holds cnt: the
\* counter is incremented and names the label of oc.comparable_value
AppendedColumn(oc, cnt) ==
    [kind |-> "Appended", oc |-> oc, index |-> 0,
     extra_column |-> Labelled(oc.col, <<"_sqlakeyset_oc_", cnt + 1>>)]

\* MappedOrderColumn.reversed: a copy with the ordering column reversed
MappedOrderColumn_reversed(c) == [c EXCEPT !.oc = reversed(c.oc)]

\* str(oc): the expression and its direction; a label inside an ordering
\* is rendered as the expression it labels
Rendered(oc) == oc.col \o <<IF oc.asc THEN "ASC" ELSE "DESC">>

\* OC.quoted_full_name: str(self).split()[0]
quoted_full_name(oc) == Head(Rendered(oc))

\* find_order_key(ocol, column_descriptions) with the counter at cnt: the
\* first selected column that compares equal, else a new AppendedColumn
find_order_key(ocol, column_descriptions, cnt) ==
    LET hits == {index \in 1..Len(column_descriptions) :
                    column_descriptions[index] = ocol.col}
    IN  IF hits # {}
        THEN [col |-> DirectColumn(ocol, CHOOSE index \in hits :
                                            \A other \in hits : index <= other),
              counter |-> cnt]
        ELSE [col |-> AppendedColumn(ocol, cnt), counter |-> cnt + 1]

RECURSIVE MapOrderCols(_, _, _)
\* [find_order_key(ocol, column_descriptions) for ocol in order_cols]
MapOrderCols(order_cols, column_descriptions, cnt) ==
    IF order_cols = <<>> THEN [cols |-> <<>>, counter |-> cnt]
    ELSE LET first == find_order_key(Head(order_cols), column_descriptions, cnt)
             rest == MapOrderCols(Tail(order_cols), column_descriptions, first.counter)
         IN  [cols |-> <<first.col>> \o rest.cols, counter |-> rest.counter]

\* parse_ob_clause(selectable), reversed for a backward page
OrderCols(request) ==
    IF request.backwards
    THEN [i \in 1..Len(request.order_by) |-> reversed(request.order_by[i])]
    ELSE request.order_by

\* [col.extra_column for col in cols if col.extra_column is not None]
RECURSIVE ExtraColumnsOf(_)
ExtraColumnsOf(cols) ==
    IF cols = <<>> THEN <<>>
    ELSE (IF Head(cols).extra_column = NoExtraColumn THEN <<>>
          ELSE <<Head(cols).extra_column>>) \o ExtraColumnsOf(Tail(cols))

\* prepare_paging, the columns of one call: every ordering column gets the
\* mapper find_order_key returns for it
prepare_paging_columns(request, cnt) ==
    LET order_cols == OrderCols(request)
        mapped == MapOrderCols(order_cols, RawColumns, cnt)
    IN  [infos |-> <<[order_cols |-> order_cols,
                      mapped_ocols |-> mapped.cols,
                      extra_columns |-> ExtraColumnsOf(mapped.cols)]>>,
         counter |-> mapped.counter]

\* a lookup that never finds a cached mapper
Cached_never(extra_column_mappers, name) == {}

\* the mapper cached under a name, if any
Cached(extra_column_mappers, name) ==
    {k \in 1..Len(extra_column_mappers) : extra_column_mappers[k].name = name}

RECURSIVE ShareMappers(_, _, _, _)
\* _get_ordering_infos, the loop over one request's mapped_ocols: a column
\* whose name is cached is replaced by the cached mapper (reversed when the
\* directions differ), any other appended column is cached under its name
ShareMappers(mapped_ocols, order_cols, i, extra_column_mappers) ==
    IF i > Len(mapped_ocols)
    THEN [mapped_ocols |-> mapped_ocols, mappers |-> extra_column_mappers]
    ELSE LET col == mapped_ocols[i]
             name == quoted_full_name(OC(col.extra_column.element, TRUE))
             found == Cached(extra_column_mappers, name)
         IN  IF col.extra_column = NoExtraColumn
             THEN ShareMappers(mapped_ocols, order_cols, i + 1, extra_column_mappers)
             ELSE IF found # {}
             THEN LET cached == extra_column_mappers[CHOOSE k \in found : TRUE].col
                      fixed == IF cached.oc.asc # order_cols[i].asc
                               THEN MappedOrderColumn_reversed(cached)
                               ELSE cached
                  IN  ShareMappers([mapped_ocols EXCEPT ![i] = fixed], order_cols,
                                   i + 1, extra_column_mappers)
             ELSE ShareMappers(mapped_ocols, order_cols, i + 1,
                               Append(extra_column_mappers,
                                      [name |-> name, col |-> col]))

RECURSIVE OrderingLoop(_, _, _, _)
\* _get_ordering_infos, the loop over the requests
OrderingLoop(requests, infos, extra_column_mappers, cnt) ==
    IF requests = <<>>
    THEN [infos |-> infos, mappers |-> extra_column_mappers, counter |-> cnt]
    ELSE LET order_cols == OrderCols(Head(requests))
             mapped == MapOrderCols(order_cols, RawColumns, cnt)
             shared == ShareMappers(mapped.cols, order_cols, 1, extra_column_mappers)
         IN  OrderingLoop(Tail(requests),
                          Append(infos, [order_cols |-> order_cols,
                                         mapped_ocols |-> shared.mapped_ocols,
                                         extra_columns |-> <<>>]),
                          shared.mappers, mapped.counter)

\* _get_ordering_infos(requests, orm): every request's info gets the
\* cached mappers' extra columns, its page identifier and its row number
_get_ordering_infos(requests, cnt) ==
    LET r == OrderingLoop(requests, <<>>, <<>>, cnt)
        extra_columns == [k \in 1..Len(r.mappers) |-> r.mappers[k].col.extra_column]
    IN  [infos |-> [i \in 1..Len(requests) |->
                      [r.infos[i] EXCEPT !.extra_columns =
                          extra_columns
                          \o <<Labelled(<<"literal">>, <<"_page_identifier", 0>>),
                               Labelled(<<"ROW_NUMBER()">>, <<"_row_number", 0>>)>>]],
         counter |-> r.counter]

OrderColumns == {OC(e, asc) : e \in OrderExprs, asc \in BOOLEAN}

OrderColumnLists == UNION {[1..n -> OrderColumns] : n \in OrderLens}

PageRequests ==
    {[order_by |-> ob, backwards |-> b] : ob \in OrderColumnLists, b \in BOOLEAN}

RequestLists == UNION {[1..n -> PageRequests] : n \in BatchSizes}

ResolveInit ==
    /\ RestIdle /\ SessionIdle /\ ThreadIdle
    /\ counter = 0
    /\ b_call = NoResolve
    /\ b_result = <<>>

\* get_page / select_page: prepare_paging maps the ordering columns
PreparePaging ==
    /\ b_call = NoResolve
    /\ counter < MaxCounter
    /\ \E request \in PageRequests :
        LET r == prepare_paging_columns(request, counter)
        IN  /\ b_call' = [api |-> "single", requests |-> <<request>>, counter |-> counter]
            /\ b_result' = r.infos
            /\ counter' = r.counter
    /\ UNCHANGED <<sessionVars, threadVars, restVars>>

\* get_homogeneous_pages / select_homogeneous_pages with several requests
GetOrderingInfos ==
    /\ b_call = NoResolve
    /\ counter < MaxCounter
    /\ \E requests \in RequestLists :
        LET r == _get_ordering_infos(requests, counter)
        IN  /\ b_call' = [api |-> "batched", requests |-> requests, counter |-> counter]
            /\ b_result' = r.infos
            /\ counter' = r.counter
    /\ UNCHANGED <<sessionVars, threadVars, restVars>>

\* the call returns; the class counter stays as the call left it
ResolveReturn ==
    /\ b_call # NoResolve
    /\ b_call' = NoResolve
    /\ b_result' = <<>>
    /\ UNCHANGED <<counter, sessionVars, threadVars, restVars>>

ResolveNext == PreparePaging \/ GetOrderingInfos \/ ResolveReturn

ResolveSpec == ResolveInit /\ [][ResolveNext]_vars

\* the ordering columns of request i of the call that need injection
Injected(i) ==
    {j \in 1..Len(b_result[i].order_cols) :
        \A index \in 1..Len(RawColumns) :
            RawColumns[index] # b_result[i].order_cols[j].col}

\* the occurrences, in the whole call, of ordering columns needing injection
Occurrences ==
    UNION {{<<i, j>> : j \in Injected(i)} : i \in 1..Len(b_result)}

\* the expression ordered by at an occurrence, the extra column it is read from
ExprAt(o) == b_result[o[1]].order_cols[o[2]].col
ColumnAt(o) == b_result[o[1]].mapped_ocols[o[2]].extra_column

\* the extra columns of request i the ordering columns brought in
InjectedColumns(i) ==
    {k \in 1..Len(b_result[i].extra_columns) :
        b_result[i].extra_columns[k].name[1] = "_sqlakeyset_oc_"}

\* C23: an ordering expression that needs injection and occurs more than
\* once among the ordering columns of one call (single or batched) gets
\* exactly one AppendedColumn and one extra output column, not one per
\* occurrence.
C23_OneColumnPerExpression ==
    b_call # NoResolve =>
        /\ counter - b_call.counter = Cardinality({ExprAt(o) : o \in Occurrences})
        /\ \A o \in Occurrences : \A i \in 1..Len(b_result) :
              Cardinality({k \in InjectedColumns(i) :
                  b_result[i].extra_columns[k].element = ExprAt(o)}) = 1

\* C23, amended: a batched call maps every occurrence of an expression to
\* one extra column, which every request selects once, and selects no more
\* extra columns than there are expressions; a single call selects one
\* extra column per occurrence, each under its own name.  Either way one
\* AppendedColumn is constructed per occurrence.
C23_OneColumnPerExpressionBatched ==
    b_call # NoResolve =>
        /\ counter - b_call.counter = Cardinality(Occurrences)
        /\ \A o \in Occurrences : \A i \in 1..Len(b_result) :
              o[1] = i \/ b_call.api = "batched" =>
                  Cardinality({k \in InjectedColumns(i) :
                      b_result[i].extra_columns[k] = ColumnAt(o)}) = 1
        /\ b_call.api = "batched" =>
              /\ \A o1 \in Occurrences : \A o2 \in Occurrences :
                    ExprAt(o1) = ExprAt(o2) => ColumnAt(o1) = ColumnAt(o2)
              /\ \A i \in 1..Len(b_result) :
                    Cardinality(InjectedColumns(i))
                        <= Cardinality({ExprAt(o) : o \in Occurrences})
        /\ b_call.api = "single" =>
              /\ \A o1 \in Occurrences : \A o2 \in Occurrences :
                    o1 # o2 => ColumnAt(o1).name # ColumnAt(o2).name
              /\ Cardinality(InjectedColumns(1)) = Cardinality(Occurrences)

\* C23's case: a batched call of two requests ordered by the same
\* expression in opposite directions, the second also twice by it
C23_Witness ==
    /\ b_call.api = "batched"
    /\ Len(b_result) = 2
    /\ Occurrences = {<<1, 1>>, <<2, 1>>, <<2, 2>>}
    /\ ExprAt(<<1, 1>>) = ExprAt(<<2, 1>>) /\ ExprAt(<<2, 1>>) = ExprAt(<<2, 2>>)
    /\ b_result[1].order_cols[1].asc # b_result[2].order_cols[1].asc
    /\ b_result[2].mapped_ocols[1] = MappedOrderColumn_reversed(b_result[1].mapped_ocols[1])
    /\ counter = b_call.counter + 3

\* C24: in a batched call two occurrences are mapped to the same injected
\* column only if their ordering expressions are the same expression, so
\* every request's keysets are read from a column that computes its own
\* ordering expression.
C24_SharedOnlyWhenSameExpression ==
    b_call.api = "batched" =>
        /\ \A o1 \in Occurrences : \A o2 \in Occurrences :
              ColumnAt(o1) = ColumnAt(o2) => ExprAt(o1) = ExprAt(o2)
        /\ \A o \in Occurrences : ColumnAt(o).element = ExprAt(o)

----------------------------------------------------------------------------
(* ThreadSpec: pagination calls in several threads, each constructing      *)
(* AppendedColumns without a name.  The constructor's                      *)
(*     AppendedColumn._counter += 1                                        *)
(*     name = "_sqlakeyset_oc_{}".format(AppendedColumn._counter)          *)
(* reads the class attribute, writes it back and reads it again; no lock   *)
(* is held, so the threads' steps interleave.                              *)

NumThreads == 2

\* the AppendedColumns one thread constructs
MaxCreates == 2

Threads == 1..NumThreads

ThreadInit ==
    /\ RestIdle /\ SessionIdle
    /\ counter = 0 /\ b_call = NoResolve /\ b_result = <<>>
    /\ th_pc = [t \in Threads |-> "load"]
    /\ th_local = [t \in Threads |-> 0]
    /\ th_names = [t \in Threads |-> <<>>]

\* AppendedColumn._counter += 1, the read of the attribute
LoadCounter(t) ==
    /\ th_pc[t] = "load"
    /\ th_local' = [th_local EXCEPT ![t] = counter]
    /\ th_pc' = [th_pc EXCEPT ![t] = "store"]
    /\ UNCHANGED <<counter, th_names, b_call, b_result, sessionVars, restVars>>

\* AppendedColumn._counter += 1, the write of the sum
StoreCounter(t) ==
    /\ th_pc[t] = "store"
    /\ counter' = th_local[t] + 1
    /\ th_pc' = [th_pc EXCEPT ![t] = "name"]
    /\ UNCHANGED <<th_local, th_names, b_call, b_result, sessionVars, restVars>>

\* name = "_sqlakeyset_oc_{}".format(AppendedColumn._counter); the thread
\* goes on to its next column, if any
NameColumn(t) ==
    /\ th_pc[t] = "name"
    /\ th_names' = [th_names EXCEPT ![t] = Append(@, <<"_sqlakeyset_oc_", counter>>)]
    /\ th_pc' = [th_pc EXCEPT ![t] =
                    IF Len(th_names[t]) + 1 < MaxCreates THEN "load" ELSE "done"]
    /\ UNCHANGED <<counter, th_local, b_call, b_result, sessionVars, restVars>>

ThreadNext ==
    \E t \in Threads : LoadCounter(t) \/ StoreCounter(t) \/ NameColumn(t)

ThreadSpec == ThreadInit /\ [][ThreadNext]_vars

\* the columns constructed so far: thread and position
Constructed == UNION {{<<t, k>> : k \in 1..Len(th_names[t])} : t \in Threads}

\* C25: every AppendedColumn constructed without a name gets a name
\* "_sqlakeyset_oc_<k>" that no other AppendedColumn of the process has,
\* also when pagination calls run concurrently.
C25_NamesNeverCollide ==
    \A c1 \in Constructed : \A c2 \in Constructed :
        c1 # c2 => th_names[c1[1]][c1[2]] # th_names[c2[1]][c2[2]]

====
